---- MODULE Spec2Model ----
(***************************************************************************)
(* A model of the deb crate (paultag/deb-rs): the version engine, the      *)
(* dependency expression engine and the paragraph stream driver.           *)
(*                                                                         *)
(* Text is modelled as sequences of one-character strings, so that the     *)
(* parsers and renderers do the work the code does (splitting, trimming,   *)
(* joining).  Option<T> is a sequence of length 0 (None) or 1 (Some).      *)
(* A u64 is its canonical decimal digit sequence, which keeps the real     *)
(* width of the epoch (values above 2^31 - 1 are representable).           *)
(***************************************************************************)
EXTENDS Integers, Sequences, FiniteSets, TLC

VARIABLES
    vers,       \* version engine: the Versions constructed so far
    verr,       \* version engine: outcome of the last constructor call
    vcmp,       \* version engine: results of Ord::cmp / PartialEq::eq
    vout,       \* version engine: Display of the Versions, if rendered
    vback,      \* version engine: from_str of the rendered texts, if run
    dsrc,       \* dependency engine: the text handed to Dependency::from_str
    dast,       \* dependency engine: what from_str returned
    dout,       \* dependency engine: Display of the parsed Dependency
    dback,      \* dependency engine: from_str of the rendered text
    dprof,      \* dependency engine: result of filter_for_build_profiles
    darch,      \* dependency engine: result of filter_for_arch
    dfilt,      \* dependency engine: result of filter with a predicate
    dcheck,     \* dependency engine: what check() said of each architecture list
    rin,        \* stream driver: the lines of the reader's input
    rpos,       \* stream driver: lines the reader has handed out so far
    rmode,      \* stream driver: "blocking" or "async" iterator
    rfut,       \* stream driver: buf of the async read in flight, if any
    rout,       \* stream driver: what the calls of next() returned, in order
    rcancel,    \* stream driver: async reads dropped before they returned
    fkey,       \* field decoder: the key of the field of the record
    ftype,      \* field decoder: the declared type of the field
    fvalue,     \* field decoder: the value of the RawField
    fres,       \* field decoder: what decoding the record returned, if run
    archs,      \* architectures: the Architectures constructed so far
    ais,        \* architectures: what archs[1].is(&archs[2]) returned, if run
    aout,       \* architectures: Display of the Architectures, if rendered
    aback,      \* architectures: from_str of the rendered texts, if run
    cfile,      \* .changes File: the File value, if one was made
    ctext,      \* .changes File: Display of the File, if rendered
    cback       \* .changes File: from_str of the rendered text, if run

versionVars == <<vers, verr, vcmp, vout, vback>>

depVars == <<dsrc, dast, dout, dback, dprof, darch, dfilt, dcheck>>

streamVars == <<rin, rpos, rmode, rfut, rout, rcancel>>

fieldVars == <<fkey, ftype, fvalue, fres>>

archVars == <<archs, ais, aout, aback>>

fileVars == <<cfile, ctext, cback>>

vars == <<vers, verr, vcmp, vout, vback, dsrc, dast, dout, dback, dprof, darch, dfilt, dcheck, rin, rpos, rmode, rfut, rout, rcancel,
          fkey, ftype, fvalue, fres, archs, ais, aout, aback, cfile, ctext, cback>>

----------------------------------------------------------------------------
(* Generic helpers over sequences.                                         *)

None == << >>

Some(x) == <<x>>

IsSome(o) == Len(o) = 1

Unwrap(o) == o[1]

UnwrapOr(o, d) == IF Len(o) = 1 THEN o[1] ELSE d

RECURSIVE SeqsUpTo(_, _)
\* All sequences over S of length 0..n.
SeqsUpTo(S, n) ==
    IF n = 0 THEN {<< >>}
    ELSE LET shorter == SeqsUpTo(S, n - 1)
         IN  shorter \cup {Append(s, c) : s \in {t \in shorter : Len(t) = n - 1}, c \in S}

Min(a, b) == IF a < b THEN a ELSE b

\* Index of the first element of s that is c, 0 when there is none.
FirstIndexOf(s, c) ==
    IF \E i \in 1..Len(s) : s[i] = c
    THEN CHOOSE i \in 1..Len(s) : s[i] = c /\ \A j \in 1..(i - 1) : s[j] # c
    ELSE 0

\* Index of the last element of s that is c, 0 when there is none.
LastIndexOf(s, c) ==
    IF \E i \in 1..Len(s) : s[i] = c
    THEN CHOOSE i \in 1..Len(s) : s[i] = c /\ \A j \in (i + 1)..Len(s) : s[j] # c
    ELSE 0

----------------------------------------------------------------------------
(* Character classes (char::is_ascii_digit and friends).                   *)

Digits == {"0", "1", "2", "3", "4", "5", "6", "7", "8", "9"}

DigitSeq == <<"0", "1", "2", "3", "4", "5", "6", "7", "8", "9">>

UpperSeq == <<"A", "B", "C", "D", "E", "F", "G", "H", "I", "J", "K", "L", "M",
              "N", "O", "P", "Q", "R", "S", "T", "U", "V", "W", "X", "Y", "Z">>

LowerSeq == <<"a", "b", "c", "d", "e", "f", "g", "h", "i", "j", "k", "l", "m",
              "n", "o", "p", "q", "r", "s", "t", "u", "v", "w", "x", "y", "z">>

Upper == {UpperSeq[i] : i \in 1..Len(UpperSeq)}

Lower == {LowerSeq[i] : i \in 1..Len(LowerSeq)}

WhiteSpace == {" ", "\t", "\n"}

\* The code point of an ASCII character the version engine can meet.
Ascii(ch) ==
    CASE ch \in Digits -> 47 + FirstIndexOf(DigitSeq, ch)
      [] ch \in Upper  -> 64 + FirstIndexOf(UpperSeq, ch)
      [] ch \in Lower  -> 96 + FirstIndexOf(LowerSeq, ch)
      [] ch = "+"      -> 43
      [] ch = "-"      -> 45
      [] ch = "."      -> 46
      [] ch = ":"      -> 58
      [] ch = "~"      -> 126
      [] ch = " "      -> 32
      [] ch = "@"      -> 64
      [] OTHER         -> 0

\* Ordering, as std::cmp::Ordering.
Less == "Less"

Equal == "Equal"

Greater == "Greater"

\* The value a panicking call "returns": the call does not return.
Panic == "Panic"

IntCmp(a, b) == IF a < b THEN Less ELSE IF a > b THEN Greater ELSE Equal

Reverse(o) == IF o = Less THEN Greater ELSE IF o = Greater THEN Less ELSE o

----------------------------------------------------------------------------
(* Unsigned integers as canonical decimal digit sequences.                 *)

RECURSIVE StripZeros(_)
\* str::trim_start_matches('0')
StripZeros(d) == IF Len(d) > 0 /\ d[1] = "0" THEN StripZeros(Tail(d)) ELSE d

\* The canonical digits of the number written d ("007" is "7", "" is "0").
Canon(d) == IF StripZeros(d) = << >> THEN <<"0">> ELSE StripZeros(d)

Zero == <<"0">>

RECURSIVE LexCmp(_, _)
\* Lexicographic comparison of two equally long character sequences by
\* code point (char::cmp over a zip).
LexCmp(a, b) ==
    IF a = << >> \/ b = << >> THEN Equal
    ELSE IF Ascii(a[1]) # Ascii(b[1]) THEN IntCmp(Ascii(a[1]), Ascii(b[1]))
    ELSE LexCmp(Tail(a), Tail(b))

\* u64::cmp on canonical digit sequences.
DecCmp(a, b) ==
    IF Len(a) # Len(b) THEN IntCmp(Len(a), Len(b)) ELSE LexCmp(a, b)

\* u64::MAX = 18446744073709551615
U64Max == <<"1", "8", "4", "4", "6", "7", "4", "4", "0", "7", "3", "7", "0", "9",
            "5", "5", "1", "6", "1", "5">>

\* i32::MAX as u64 = 2147483647
I32Max == <<"2", "1", "4", "7", "4", "8", "3", "6", "4", "7">>

\* i32::MAX + 1, the smallest epoch dpkg refuses.
I32MaxPlus1 == <<"2", "1", "4", "7", "4", "8", "3", "6", "4", "8">>

\* str::parse::<u64>(): an optional '+', then one or more digits, the value
\* at most u64::MAX.
ParseU64(s) ==
    LET body == IF Len(s) > 0 /\ s[1] = "+" THEN Tail(s) ELSE s
    IN  IF body = << >> \/ \E i \in 1..Len(body) : body[i] \notin Digits
        THEN [ok |-> FALSE, val |-> Zero]
        ELSE IF DecCmp(Canon(body), U64Max) = Greater
        THEN [ok |-> FALSE, val |-> Zero]
        ELSE [ok |-> TRUE, val |-> Canon(body)]

----------------------------------------------------------------------------
(* Version: src/src/version/version.rs                                     *)

\* struct Version { epoch, upstream_version, debian_revision }
Version(e, u, r) == [epoch |-> e, upstream_version |-> u, debian_revision |-> r]

\* Result<Version, Error>
VOk(v) == [ok |-> TRUE, v |-> v, err |-> "None"]

VErr(e) == [ok |-> FALSE, v |-> Version(None, << >>, None), err |-> e]

\* The characters check() lets through in either component.
IsPlainVersionChar(ch) ==
    ch \in Lower \/ ch \in Upper \/ ch \in Digits \/ ch = "~" \/ ch = "+" \/ ch = "."

\* Version::check: "Ok" or the Error.
Check(v) ==
    LET u == v.upstream_version
    IN  IF Len(u) > 0 /\ u[1] \notin Digits THEN "InvalidUpstreamVersion"
        ELSE IF \E i \in 1..Len(u) :
                    /\ ~IsPlainVersionChar(u[i])
                    /\ ~(u[i] = ":" /\ IsSome(v.epoch))
                    /\ ~(u[i] = "-" /\ IsSome(v.debian_revision))
        THEN "InvalidUpstreamVersion"
        ELSE IF /\ IsSome(v.debian_revision)
                /\ \E i \in 1..Len(Unwrap(v.debian_revision)) :
                      ~IsPlainVersionChar(Unwrap(v.debian_revision)[i])
        THEN "InvalidDebianRevision"
        ELSE "Ok"

\* Version::from_parts
from_parts(epoch, upstream_version, debian_revision) ==
    LET ret == Version(epoch, upstream_version, debian_revision)
    IN  IF Check(ret) = "Ok" THEN VOk(ret) ELSE VErr(Check(ret))

RECURSIVE TrimStart(_)
\* str::trim_start
TrimStart(s) == IF Len(s) > 0 /\ s[1] \in WhiteSpace THEN TrimStart(Tail(s)) ELSE s

RECURSIVE TrimEnd(_)
\* str::trim_end
TrimEnd(s) ==
    IF Len(s) > 0 /\ s[Len(s)] \in WhiteSpace THEN TrimEnd(SubSeq(s, 1, Len(s) - 1)) ELSE s

\* str::trim
Trim(s) == TrimEnd(TrimStart(s))

\* <Version as FromStr>::from_str
from_str(input) ==
    LET ver0  == Trim(input)
        colon == FirstIndexOf(ver0, ":")
        ep    == ParseU64(SubSeq(ver0, 1, colon - 1))
        epoch == IF colon = 0 THEN None ELSE Some(ep.val)
        ver   == IF colon = 0 THEN ver0 ELSE SubSeq(ver0, colon + 1, Len(ver0))
        dash  == LastIndexOf(ver, "-")
        upstream == IF dash = 0 THEN ver ELSE SubSeq(ver, 1, dash - 1)
        revision == IF dash = 0 THEN None ELSE Some(SubSeq(ver, dash + 1, Len(ver)))
        ret   == Version(epoch, upstream, revision)
    IN  IF colon # 0 /\ ~ep.ok THEN VErr("InvalidEpoch")
        ELSE IF colon # 0 /\ DecCmp(ep.val, I32Max) = Greater THEN VErr("InvalidEpoch")
        ELSE IF ver = << >> THEN VErr("Empty")
        ELSE IF dash # 0 /\ Unwrap(revision) = << >> THEN VErr("NoDebianRevision")
        ELSE IF dash # 0 /\ upstream = << >> THEN VErr("NoUpstreamVersion")
        ELSE IF upstream = << >> THEN VErr("NoUpstreamVersion")
        ELSE IF Check(ret) # "Ok" THEN VErr(Check(ret))
        ELSE VOk(ret)

\* Display that leaves the epoch out.
to_string_without_epoch(v) ==
    v.upstream_version
        \o (IF IsSome(v.debian_revision) THEN <<"-">> \o Unwrap(v.debian_revision) ELSE << >>)

\* <Version as Display>::fmt
to_string(v) ==
    LET e == IF IsSome(v.epoch) THEN Unwrap(v.epoch) \o <<":">> ELSE << >>
        r == IF IsSome(v.debian_revision) THEN <<"-">> \o Unwrap(v.debian_revision) ELSE << >>
    IN  e \o v.upstream_version \o r

\* #[derive(PartialEq)] on Version: field by field.
VersionEq(a, b) ==
    /\ a.epoch = b.epoch
    /\ a.upstream_version = b.upstream_version
    /\ a.debian_revision = b.debian_revision

----------------------------------------------------------------------------
(* Version ordering: src/src/version/compare.rs                            *)

is_version_digit(ch) == ch \in Digits

is_version_string(ch) ==
    ch \in Lower \/ ch \in Upper \/ ch = "." \/ ch = "-" \/ ch = "+" \/ ch = ":" \/ ch = "~"

\* version_char_to_num; -1 stands for panic!("malformed char").
version_char_to_num(ch) ==
    IF ~is_version_string(ch) THEN -1
    ELSE IF ch = "~" THEN 0
    ELSE IF ch \in Lower \/ ch \in Upper THEN Ascii(ch)
    ELSE Ascii(ch) + 90

compare_version_char(left, right) ==
    IF version_char_to_num(left) = -1 \/ version_char_to_num(right) = -1 THEN Panic
    ELSE IntCmp(version_char_to_num(left), version_char_to_num(right))

\* enum VersionComponent
StringComponent(t) == [kind |-> "String", text |-> t]

NumberComponent(t) == [kind |-> "Number", text |-> t]

\* What the iterator yields when it meets a character that is neither a digit
\* nor a version-string character: Some(Err(Malformed)).  No Version that
\* passed check() holds such a character.
MalformedComponent == [kind |-> "Malformed", text |-> << >>]

\* The first index j >= i where the run that starts at i stops: the end of the
\* text, or a character that does not belong to the run's class.
RunEnd(s, i, in_string) ==
    LET stops(j) == IF in_string THEN ~is_version_string(s[j]) ELSE ~is_version_digit(s[j])
    IN  IF \E j \in i..Len(s) : stops(j)
        THEN CHOOSE j \in i..Len(s) : stops(j) /\ \A k \in i..(j - 1) : ~stops(k)
        ELSE Len(s) + 1

RECURSIVE IterCollect(_, _, _)
\* VersionCompareIterator::next, called until None, flattened and collected.
\* i is the position of self.ch (past the end when self.ch is None).
IterCollect(s, i, in_string) ==
    IF i > Len(s)
    THEN IF in_string THEN <<StringComponent(<< >>)>> ELSE << >>
    ELSE LET j == RunEnd(s, i, in_string)
             matched == SubSeq(s, i, j - 1)
         IN  IF j <= Len(s) /\ ~is_version_digit(s[j]) /\ ~is_version_string(s[j])
             THEN <<MalformedComponent>>
             ELSE <<IF in_string THEN StringComponent(matched) ELSE NumberComponent(matched)>>
                  \o IterCollect(s, j, ~in_string)

\* VersionCompareIterator::new(version).flatten().collect()
Components(version) == IterCollect(version, 1, TRUE)

compare_version_number_component(left, right) ==
    LET l == StripZeros(left)
        r == StripZeros(right)
    IN  IF Len(l) # Len(r) THEN IntCmp(Len(l), Len(r)) ELSE LexCmp(l, r)

RECURSIVE ZipCharCmp(_, _)
\* The zip loop of compare_version_str_component: the first unequal pair
\* decides, Equal when the shorter side runs out.
ZipCharCmp(l, r) ==
    IF l = << >> \/ r = << >> THEN Equal
    ELSE IF compare_version_char(l[1], r[1]) # Equal THEN compare_version_char(l[1], r[1])
    ELSE ZipCharCmp(Tail(l), Tail(r))

\* The comparison of two string components without the rule for '~' past
\* the common prefix: the longer one is the greater.
compare_version_str_component_by_length(left, right) ==
    IF ZipCharCmp(left, right) # Equal THEN ZipCharCmp(left, right)
    ELSE IntCmp(Len(left), Len(right))

\* The comparison of two string components with last_ch left at
\* last_idx + 1 when one of them is empty.
compare_version_str_component_without_reset(left, right) ==
    LET zipped  == ZipCharCmp(left, right)
        n       == Min(Len(left), Len(right))
        last_idx == IF n = 0 THEN 0 ELSE n - 1
        last_ch == last_idx + 1
        nth(s)  == IF last_ch + 1 <= Len(s) THEN s[last_ch + 1] ELSE Panic
    IN  IF zipped # Equal THEN zipped
        ELSE IF Len(left) = Len(right) THEN Equal
        ELSE IF Len(left) < Len(right)
        THEN IF nth(right) = Panic THEN Panic
             ELSE IF nth(right) = "~" THEN Greater ELSE Less
        ELSE IF nth(left) = Panic THEN Panic
             ELSE IF nth(left) = "~" THEN Less ELSE Greater

compare_version_str_component(left, right) ==
    LET zipped  == ZipCharCmp(left, right)
        n       == Min(Len(left), Len(right))
        last_idx == IF n = 0 THEN 0 ELSE n - 1
        last_ch == IF left = << >> \/ right = << >> THEN 0 ELSE last_idx + 1
        \* chars().nth(last_ch).unwrap(): nth counts from 0
        nth(s)  == IF last_ch + 1 <= Len(s) THEN s[last_ch + 1] ELSE Panic
    IN  IF zipped # Equal THEN zipped
        ELSE IF Len(left) = Len(right) THEN Equal
        ELSE IF Len(left) < Len(right)
        THEN IF nth(right) = Panic THEN Panic
             ELSE IF nth(right) = "~" THEN Greater ELSE Less
        ELSE IF nth(left) = Panic THEN Panic
             ELSE IF nth(left) = "~" THEN Less ELSE Greater

\* One step of the for loop of compare_version_str.
ComponentCmp(lc, rc) ==
    IF lc.kind = "String" /\ rc.kind = "String"
    THEN compare_version_str_component(lc.text, rc.text)
    ELSE IF lc.kind = "Number" /\ rc.kind = "Number"
    THEN compare_version_number_component(lc.text, rc.text)
    ELSE Panic

RECURSIVE ZipComponentCmp(_, _)
\* for (l, r) in left_it.zip(right_it): the loop ends with the shorter list.
ZipComponentCmp(ls, rs) ==
    IF ls = << >> \/ rs = << >> THEN Equal
    ELSE IF ComponentCmp(ls[1], rs[1]) # Equal THEN ComponentCmp(ls[1], rs[1])
    ELSE ZipComponentCmp(Tail(ls), Tail(rs))

\* The result when a component list holds an Err(Malformed) item.
Malformed == "Malformed"

compare_version_str(left, right) ==
    LET ls == Components(left)
        rs == Components(right)
        hangs(cs) == Len(cs) > 0 /\ cs[Len(cs)].kind = "Malformed"
    IN  IF hangs(ls) \/ hangs(rs) THEN Malformed ELSE ZipComponentCmp(ls, rs)

\* <Version as Ord>::cmp
cmp(a, b) ==
    LET e == DecCmp(UnwrapOr(a.epoch, Zero), UnwrapOr(b.epoch, Zero))
        u == compare_version_str(a.upstream_version, b.upstream_version)
    IN  IF e # Equal THEN e
        ELSE IF u # Equal THEN u
        ELSE compare_version_str(UnwrapOr(a.debian_revision, Zero),
                                 UnwrapOr(b.debian_revision, Zero))


----------------------------------------------------------------------------
(* The version engine as a state machine: Versions are constructed one by  *)
(* one through the public constructors and then compared with each other.  *)

\* Longest generated version string.
MaxVerLen == 3

\* Longest generated version string where three Versions are compared.
MaxOrdLen == 3

VerAlphabet == {"0", "1", ".", ":", "-"}

OrdAlphabet == {"0", "1", "."}

\* Inputs beyond the generated ones: surrounding whitespace, a tilde, a
\* letter, a character outside the alphabet, epochs at the i32 limit.
VersionExtraInputs ==
    { <<" ", "1", " ">>, <<"1", "~">>, <<"1", "a">>, <<"1", "a", "1">>, <<"1", "@">>,
      <<"1", " ", "1">>, <<"+", "1", ":", "1">>,
      I32Max \o <<":", "1">>, I32MaxPlus1 \o <<":", "1">> }

VersionInputs == SeqsUpTo(VerAlphabet, MaxVerLen) \cup VersionExtraInputs

OrderInputs == SeqsUpTo(OrdAlphabet, MaxOrdLen)

PartsEpochs == {None, Some(Zero), Some(I32Max), Some(I32MaxPlus1)}

PartsUpstreams == {<< >>, <<"1">>, <<"a">>, <<"1", ":">>, <<"1", "-">>}

PartsRevisions == {None, Some(Zero), Some(<<"-">>)}

NotCompared == [done |-> FALSE, ord |-> << >>, eq |-> << >>]

VersionIdle ==
    /\ vers = << >>
    /\ verr = "Ok"
    /\ vcmp = NotCompared
    /\ vout = << >>
    /\ vback = << >>

DepIdle ==
    /\ dsrc = << >>
    /\ dast = << >>
    /\ dout = << >>
    /\ dback = << >>
    /\ dprof = << >>
    /\ darch = << >>
    /\ dfilt = << >>
    /\ dcheck = << >>

StreamIdle ==
    /\ rin = << >>
    /\ rpos = 0
    /\ rmode = "blocking"
    /\ rfut = << >>
    /\ rout = << >>
    /\ rcancel = 0

FieldIdle ==
    /\ fkey = ""
    /\ ftype = ""
    /\ fvalue = << >>
    /\ fres = << >>

ArchIdle ==
    /\ archs = << >>
    /\ ais = << >>
    /\ aout = << >>
    /\ aback = << >>

FileIdle ==
    /\ cfile = << >>
    /\ ctext = << >>
    /\ cback = << >>

VersionInit == VersionIdle /\ DepIdle /\ StreamIdle /\ FieldIdle /\ ArchIdle /\ FileIdle

\* s.parse::<Version>(), the result kept when it is Ok.
ParseVersion(cap, s) ==
    /\ ~vcmp.done
    /\ Len(vers) < cap
    /\ LET r == from_str(s)
       IN  IF r.ok
           THEN /\ vers' = Append(vers, [v |-> r.v, via |-> "from_str", src |-> s])
                /\ verr' = "Ok"
           ELSE /\ vers' = vers
                /\ verr' = r.err
    /\ UNCHANGED <<vcmp, vout, vback, depVars, streamVars, fieldVars, archVars, fileVars>>

\* Version::from_parts(e, u, r), the result kept when it is Ok.
ConstructVersion(cap, e, u, r) ==
    /\ ~vcmp.done
    /\ Len(vers) < cap
    /\ LET res == from_parts(e, u, r)
       IN  IF res.ok
           THEN /\ vers' = Append(vers, [v |-> res.v, via |-> "from_parts", src |-> << >>])
                /\ verr' = "Ok"
           ELSE /\ vers' = vers
                /\ verr' = res.err
    /\ UNCHANGED <<vcmp, vout, vback, depVars, streamVars, fieldVars, archVars, fileVars>>

\* a.cmp(&b) and a == b for every two of the Versions constructed.
CompareVersions ==
    /\ ~vcmp.done
    /\ Len(vers) >= 1
    /\ vcmp' = [done |-> TRUE,
                ord  |-> [i \in 1..Len(vers) |-> [j \in 1..Len(vers) |-> cmp(vers[i].v, vers[j].v)]],
                eq   |-> [i \in 1..Len(vers) |->
                             [j \in 1..Len(vers) |-> VersionEq(vers[i].v, vers[j].v)]]]
    /\ UNCHANGED <<vers, verr, vout, vback, depVars, streamVars, fieldVars, archVars, fileVars>>

\* v.to_string() for every Version constructed.
RenderVersion ==
    /\ vers # << >>
    /\ vout = None
    /\ vout' = Some([i \in 1..Len(vers) |-> to_string(vers[i].v)])
    /\ UNCHANGED <<vers, verr, vcmp, vback, depVars, streamVars, fieldVars, archVars, fileVars>>

\* text.parse::<Version>() for every rendered text.
ReparseVersion ==
    /\ vout # None
    /\ vback = None
    /\ vback' = Some([i \in 1..Len(Unwrap(vout)) |-> from_str(Unwrap(vout)[i])])
    /\ UNCHANGED <<vers, verr, vcmp, vout, depVars, streamVars, fieldVars, archVars, fileVars>>

\* Two Versions at a time: the binary properties.
VersionNext ==
    \/ \E s \in VersionInputs : ParseVersion(2, s)
    \/ \E e \in PartsEpochs, u \in PartsUpstreams, r \in PartsRevisions :
          ConstructVersion(2, e, u, r)
    \/ CompareVersions

VersionSpec == VersionInit /\ [][VersionNext]_vars

\* Three Versions at a time: the ternary properties (transitivity).
OrderNext ==
    \/ \E s \in OrderInputs : ParseVersion(3, s)
    \/ CompareVersions

OrderSpec == VersionInit /\ [][OrderNext]_vars

\* Base strings v and suffixes t of the tilde law.
MaxBaseLen == 3

MaxSuffixLen == 2

TildeAlphabet == {"1", "a", "~", "-", ":"}

TildeBases == SeqsUpTo(TildeAlphabet, MaxBaseLen)

TildeSuffixes == SeqsUpTo(TildeAlphabet, MaxSuffixLen)

\* A string v, then a string v + "~" + t (t may be empty), then compared.
TildeNext ==
    \/ \E s \in TildeBases : vers = << >> /\ ParseVersion(2, s)
    \/ \E t \in TildeSuffixes :
          Len(vers) = 1 /\ ParseVersion(2, vers[1].src \o <<"~">> \o t)
    \/ Len(vers) = 2 /\ CompareVersions

TildeSpec == VersionInit /\ [][TildeNext]_vars

MaxRenderLen == 5

\* Texts long enough for an epoch, an upstream and a revision, and a text
\* in white space.
RenderInputs ==
    SeqsUpTo(VerAlphabet, MaxRenderLen) \cup VersionExtraInputs
        \cup {<<" ", "1", ":", "1", "-", "1", "\n">>}

\* One Version at a time, parsed, rendered and parsed again.
RenderNext ==
    \/ \E s \in RenderInputs : ParseVersion(1, s)
    \/ RenderVersion
    \/ ReparseVersion

RenderSpec == VersionInit /\ [][RenderNext]_vars


----------------------------------------------------------------------------
(* The reference ordering of deb-version(5), which dpkg --compare-versions *)
(* decides: the yardstick of the compatibility requirement.                *)

\* The weight of a character in a non-digit run: a tilde sorts before the
\* end of the text, digits and the end weigh nothing, letters sort before
\* every other character.
RefOrder(ch) ==
    IF ch \in Digits THEN 0
    ELSE IF ch \in Lower \/ ch \in Upper THEN Ascii(ch)
    ELSE IF ch = "~" THEN -1
    ELSE Ascii(ch) + 256

\* The length of the digit run a text starts with.
RefDigitRunLen(s) ==
    IF \E j \in 1..Len(s) : s[j] \notin Digits
    THEN (CHOOSE j \in 1..Len(s) : s[j] \notin Digits /\ \A k \in 1..(j - 1) : s[k] \in Digits) - 1
    ELSE Len(s)

RECURSIVE RefSeqCmp(_, _)
\* The Debian sequence order of two texts: non-digit runs by weight, digit
\* runs by value, a missing run of either kind being empty.
RefSeqCmp(a, b) ==
    IF a = << >> /\ b = << >> THEN Equal
    ELSE IF (a # << >> /\ a[1] \notin Digits) \/ (b # << >> /\ b[1] \notin Digits)
    THEN LET ac == IF a = << >> THEN 0 ELSE RefOrder(a[1])
             bc == IF b = << >> THEN 0 ELSE RefOrder(b[1])
         IN  IF ac # bc THEN IntCmp(ac, bc) ELSE RefSeqCmp(Tail(a), Tail(b))
    ELSE LET na == RefDigitRunLen(a)
             nb == RefDigitRunLen(b)
             c  == DecCmp(Canon(SubSeq(a, 1, na)), Canon(SubSeq(b, 1, nb)))
         IN  IF c # Equal THEN c
             ELSE RefSeqCmp(SubSeq(a, na + 1, Len(a)), SubSeq(b, nb + 1, Len(b)))

\* Epochs as integers (absent = 0), then upstreams, then revisions
\* (absent = "0").
RefVersionCmp(a, b) ==
    LET e == DecCmp(UnwrapOr(a.epoch, Zero), UnwrapOr(b.epoch, Zero))
        u == RefSeqCmp(a.upstream_version, b.upstream_version)
    IN  IF e # Equal THEN e
        ELSE IF u # Equal THEN u
        ELSE RefSeqCmp(UnwrapOr(a.debian_revision, Zero), UnwrapOr(b.debian_revision, Zero))

----------------------------------------------------------------------------
(* Claims about the version engine.                                        *)

Parsed(i) == vers[i].via = "from_str"

\* C1: cmp is a total order over the Versions parse accepts: cmp(a,a) is
\* Equal, cmp(a,b) is the reverse of cmp(b,a), and cmp is transitive, for
\* Equal as well as for Less.  (Checked under OrderSpec.)
C1_CmpTotalOrder ==
    vcmp.done =>
        \A i, j, k \in 1..Len(vers) :
            /\ vcmp.ord[i][i] = Equal
            /\ vcmp.ord[i][j] = Reverse(vcmp.ord[j][i])
            /\ (vcmp.ord[i][j] = Equal /\ vcmp.ord[j][k] = Equal) => vcmp.ord[i][k] = Equal
            /\ (vcmp.ord[i][j] = Less /\ vcmp.ord[j][k] = Less) => vcmp.ord[i][k] = Less
            /\ (vcmp.ord[i][j] = Less /\ vcmp.ord[j][k] = Equal) => vcmp.ord[i][k] = Less
            /\ (vcmp.ord[i][j] = Equal /\ vcmp.ord[j][k] = Less) => vcmp.ord[i][k] = Less

\* C2: for every two accepted version strings cmp returns what the reference
\* Debian ordering returns.
C2_CmpMatchesReference ==
    vcmp.done =>
        \A i, j \in 1..Len(vers) :
            (Parsed(i) /\ Parsed(j)) => vcmp.ord[i][j] = RefVersionCmp(vers[i].v, vers[j].v)

\* C3: equality is defined by the ordering: a == b exactly when cmp(a,b) is
\* Equal.
C3_EqIsCmpEqual ==
    vcmp.done =>
        \A i, j \in 1..Len(vers) : vcmp.eq[i][j] <=> (vcmp.ord[i][j] = Equal)

\* The data-model invariants of a Version.
VersionWellFormed(v) ==
    /\ IsSome(v.epoch) => DecCmp(Unwrap(v.epoch), I32Max) # Greater
    /\ v.upstream_version # << >>
    /\ v.upstream_version[1] \in Digits
    /\ \A i \in 1..Len(v.upstream_version) :
          \/ IsPlainVersionChar(v.upstream_version[i])
          \/ v.upstream_version[i] = ":" /\ IsSome(v.epoch)
          \/ v.upstream_version[i] = "-" /\ IsSome(v.debian_revision)
    /\ IsSome(v.debian_revision) =>
          \A i \in 1..Len(Unwrap(v.debian_revision)) :
              IsPlainVersionChar(Unwrap(v.debian_revision)[i])

\* C4: every Version obtained from parse or from_parts satisfies the
\* data-model invariants.
C4_ConstructedVersionsWellFormed ==
    \A i \in 1..Len(vers) : VersionWellFormed(vers[i].v)

\* long is short + "~" + t for a t that is not empty.
IsTildeExtension(long, short) ==
    /\ Len(long) > Len(short) + 1
    /\ SubSeq(long, 1, Len(short) + 1) = short \o <<"~">>

\* The t of a tilde extension.
TildeSuffixOf(long, short) == SubSeq(long, Len(short) + 2, Len(long))

\* long is short + "~" and short ends in "~": the pair v + "~~", v + "~".
IsDoubleTilde(long, short) ==
    /\ long = short \o <<"~">>
    /\ short # << >>
    /\ short[Len(short)] = "~"

\* C15: tilde law: for accepted strings v and v + "~" + t, t not empty,
\* parse(v + "~" + t) < parse(v); and parse(v + "~~") < parse(v + "~").
C15_TildeLaw ==
    (vcmp.done /\ Len(vers) = 2 /\ Parsed(1) /\ Parsed(2))
    => /\ IsTildeExtension(vers[2].src, vers[1].src) => vcmp.ord[2][1] = Less
       /\ IsDoubleTilde(vers[2].src, vers[1].src) => vcmp.ord[2][1] = Less

\* C15, amended: the law as above, for every t that does not move the
\* start of the revision: v has no revision, or t has no '-'.
C15_TildeLawAmended ==
    (vcmp.done /\ Len(vers) = 2 /\ Parsed(1) /\ Parsed(2))
    => /\ (/\ IsTildeExtension(vers[2].src, vers[1].src)
           /\ \/ vers[1].v.debian_revision = None
              \/ FirstIndexOf(TildeSuffixOf(vers[2].src, vers[1].src), "-") = 0)
          => vcmp.ord[2][1] = Less
       /\ IsDoubleTilde(vers[2].src, vers[1].src) => vcmp.ord[2][1] = Less

\* v with a revision and v + "~" + t have been compared, and so have a
\* v + "~" and v + "~~".
C15_Witness ==
    /\ vcmp.done
    /\ Len(vers) = 2
    /\ IsTildeExtension(vers[2].src, vers[1].src)
    /\ IsSome(vers[1].v.debian_revision)
    /\ vcmp.ord[2][1] = Less

\* short is long cut off before its end: short has no more runs where long
\* continues.
EndsBefore(short, long) ==
    Len(short) < Len(long) /\ SubSeq(long, 1, Len(short)) = short

\* C24: when two upstream strings are compared run by run and one has no
\* more runs while the other continues, the missing run, non-digit or
\* digit, counts as empty (a missing digit run as the number zero): so
\* "1.0~rc1" < "1.0", and "1a" < "1a1".
C24_MissingRunIsEmpty ==
    vcmp.done =>
        \A i, j \in 1..Len(vers) :
            (/\ Parsed(i)
             /\ Parsed(j)
             /\ vers[i].v.epoch = vers[j].v.epoch
             /\ vers[i].v.debian_revision = None
             /\ vers[j].v.debian_revision = None
             /\ EndsBefore(vers[i].v.upstream_version, vers[j].v.upstream_version))
                => vcmp.ord[i][j]
                       = RefSeqCmp(vers[i].v.upstream_version, vers[j].v.upstream_version)

\* C26: for any two Versions that parse or from_parts returned, cmp ends
\* and does not panic: it returns Less, Equal or Greater, the "malformed
\* char" panic, the panic on components of two kinds and the unwrap of a
\* missing character are not reached, and the component iterator comes to
\* its end (it yields no Err(Malformed)).
C26_CmpNeverPanics ==
    vcmp.done =>
        \A i, j \in 1..Len(vers) : vcmp.ord[i][j] \in {Less, Equal, Greater}

\* "1~" against "1": a string component against an empty one, where the
\* character after the common prefix is unwrapped.
C26_Witness ==
    /\ vcmp.done
    /\ Len(vers) = 2
    /\ vers[1].v.upstream_version = <<"1", "~">>
    /\ vers[2].v.upstream_version = <<"1">>
    /\ vers[1].v.epoch = vers[2].v.epoch
    /\ vcmp.ord[1][2] = Less

\* C13: rendering emits every component verbatim: for every accepted
\* string s, render(parse(s)) is s without its surrounding white space.
C13_RenderIsVerbatim ==
    IsSome(vout) =>
        \A i \in 1..Len(vers) : Parsed(i) => Unwrap(vout)[i] = Trim(vers[i].src)

\* C14: for every accepted string s, render(parse(s)) is accepted and
\* parses to a Version of the same epoch, upstream and revision.
C14_RenderParses ==
    IsSome(vback) =>
        \A i \in 1..Len(vers) :
            Parsed(i) => Unwrap(vback)[i].ok /\ VersionEq(Unwrap(vback)[i].v, vers[i].v)

\* A text whose rendering is not the text itself has been parsed again.
C14_Witness ==
    /\ IsSome(vback)
    /\ \E i \in 1..Len(vers) :
          /\ Parsed(i)
          /\ Unwrap(vout)[i] # vers[i].src
          /\ IsSome(vers[i].v.epoch)
          /\ Unwrap(vback)[i].ok

----------------------------------------------------------------------------
(* Architecture: src/src/architecture/architecture.rs                      *)
(*                                                                         *)
(* An architecture string is modelled as the sequence of its chunks, the   *)
(* pieces between '-' characters (what split('-') returns and join("-")    *)
(* takes); a chunk is one atomic string.                                   *)

Architecture(abi, libc, os, cpu) == [abi |-> abi, libc |-> libc, os |-> os, cpu |-> cpu]

SOURCE == Architecture("", "", "", "source")

ALL == Architecture("", "", "", "all")

ANY == Architecture("any", "any", "any", "any")

NoArch == Architecture("", "", "", "")

ArchOk(a) == [err |-> "None", ok |-> TRUE, val |-> a]

ArchErr(e) == [err |-> e, ok |-> FALSE, val |-> NoArch]

\* str::to_lowercase on a chunk: the chunks used here are lower case but
\* for these.
to_lowercase(chunk) ==
    IF chunk = "AMD64" THEN "amd64"
    ELSE IF chunk = "ANY" THEN "any"
    ELSE chunk

\* str::contains("any") on a chunk: of the chunks used here only "any"
\* has "any" as a substring ('-' is not part of "any", so a match never
\* spans two chunks).
ChunkContainsAny(chunk) == chunk = "any"

\* A chunk never holds a '-' (it is a piece of split('-')), so the
\* Malformed branch of from_parts is not taken on this path.
Architecture_from_parts(abi, libc, os, cpu) ==
    ArchOk(Architecture(to_lowercase(abi), to_lowercase(libc), to_lowercase(os), to_lowercase(cpu)))

is_wildcard(a) == a.abi = "any" \/ a.libc = "any" \/ a.os = "any" \/ a.cpu = "any"

is_special(a) == a = SOURCE \/ a = ALL \/ a = ANY

\* is without the escape for the special architectures.
Architecture_is_glob(self, other) ==
    LET compare(left, right) == right = "any" \/ left = right
    IN  /\ compare(self.abi, other.abi)
        /\ compare(self.libc, other.libc)
        /\ compare(self.os, other.os)
        /\ compare(self.cpu, other.cpu)

\* self.is(other): other may hold "any" globs.
Architecture_is(self, other) ==
    IF self = SOURCE \/ self = ALL
    THEN self = other
    ELSE LET compare(left, right) == right = "any" \/ left = right
         IN  /\ compare(self.abi, other.abi)
             /\ compare(self.libc, other.libc)
             /\ compare(self.os, other.os)
             /\ compare(self.cpu, other.cpu)

\* The empty string is the one chunk "".
IsEmptyText(chunks) == chunks = <<"">>

wildcard_from_str(chunks) ==
    IF IsEmptyText(chunks) THEN ArchErr("Malformed")
    ELSE IF ~(\E i \in 1..Len(chunks) : ChunkContainsAny(chunks[i])) THEN ArchErr("Malformed")
    ELSE IF Len(chunks) = 1 THEN Architecture_from_parts("any", "any", "any", chunks[1])
    ELSE IF Len(chunks) = 2 THEN Architecture_from_parts("any", "any", chunks[1], chunks[2])
    ELSE IF Len(chunks) = 3 THEN Architecture_from_parts("any", chunks[1], chunks[2], chunks[3])
    ELSE IF Len(chunks) = 4
    THEN Architecture_from_parts(chunks[1], chunks[2], chunks[3], chunks[4])
    ELSE ArchErr("Malformed")

\* The rows of the two match tables, in source order; "$cpu" stands for the
\* `cpu` binding, which matches any chunk.
TupleToPartsRows ==
    << <<<<"eabi", "uclibc", "linux", "arm">>, <<"uclibc", "linux", "armel">>>>,
       <<<<"eabihf", "musl", "linux", "arm">>, <<"musl", "linux", "armhf">>>>,
       <<<<"eabihf", "gnu", "linux", "arm">>, <<"armhf">>>>,
       <<<<"eabi", "gnu", "linux", "arm">>, <<"armel">>>>,
       <<<<"abin32", "gnu", "linux", "mips64r6el">>, <<"mipsn32r6el">>>>,
       <<<<"abin32", "gnu", "linux", "mips64r6">>, <<"mipsn32r6">>>>,
       <<<<"abin32", "gnu", "linux", "mips64el">>, <<"mipsn32el">>>>,
       <<<<"abin32", "gnu", "linux", "mips64">>, <<"mipsn32">>>>,
       <<<<"abi64", "gnu", "linux", "mips64r6el">>, <<"mips64r6el">>>>,
       <<<<"abi64", "gnu", "linux", "mips64r6">>, <<"mips64r6">>>>,
       <<<<"abi64", "gnu", "linux", "mips64el">>, <<"mips64el">>>>,
       <<<<"abi64", "gnu", "linux", "mips64">>, <<"mips64">>>>,
       <<<<"spe", "gnu", "linux", "powerpc">>, <<"powerpcspe">>>>,
       <<<<"x32", "gnu", "linux", "amd64">>, <<"x32">>>>,
       <<<<"base", "tos", "mint", "m68k">>, <<"mint", "m68k">>>>,
       <<<<"base", "gnu", "hurd", "$cpu">>, <<"hurd", "$cpu">>>>,
       <<<<"base", "bsd", "freebsd", "$cpu">>, <<"freebsd", "$cpu">>>>,
       <<<<"base", "gnu", "kfreebsd", "$cpu">>, <<"kfreebsd", "$cpu">>>>,
       <<<<"base", "bsd", "openbsd", "$cpu">>, <<"openbsd", "$cpu">>>>,
       <<<<"base", "bsd", "netbsd", "$cpu">>, <<"netbsd", "$cpu">>>>,
       <<<<"base", "bsd", "darwin", "$cpu">>, <<"darwin", "$cpu">>>>,
       <<<<"base", "gnu", "kopensolaris", "$cpu">>, <<"kopensolaris", "$cpu">>>>,
       <<<<"base", "bsd", "dragonflybsd", "$cpu">>, <<"dragonflybsd", "$cpu">>>>,
       <<<<"base", "sysv", "aix", "$cpu">>, <<"aix", "$cpu">>>>,
       <<<<"base", "sysv", "solaris", "$cpu">>, <<"solaris", "$cpu">>>>,
       <<<<"base", "musl", "linux", "$cpu">>, <<"musl", "linux", "$cpu">>>>,
       <<<<"base", "uclibc", "linux", "$cpu">>, <<"uclibc", "linux", "$cpu">>>>,
       <<<<"base", "gnu", "linux", "$cpu">>, <<"$cpu">>>>,
       <<<<"source", "", "", "">>, <<"source">>>>,
       <<<<"all", "", "", "">>, <<"all">>>> >>

ArchToTupleRows ==
    << <<<<"uclibc", "linux", "armel">>, <<"eabi", "uclibc", "linux", "arm">>>>,
       <<<<"musl", "linux", "armhf">>, <<"eabihf", "musl", "linux", "arm">>>>,
       <<<<"armhf">>, <<"eabihf", "gnu", "linux", "arm">>>>,
       <<<<"armel">>, <<"eabi", "gnu", "linux", "arm">>>>,
       <<<<"mipsn32r6el">>, <<"abin32", "gnu", "linux", "mips64r6el">>>>,
       <<<<"mipsn32r6">>, <<"abin32", "gnu", "linux", "mips64r6">>>>,
       <<<<"mipsn32el">>, <<"abin32", "gnu", "linux", "mips64el">>>>,
       <<<<"mipsn32">>, <<"abin32", "gnu", "linux", "mips64">>>>,
       <<<<"mips64r6el">>, <<"abi64", "gnu", "linux", "mips64r6el">>>>,
       <<<<"mips64r6">>, <<"abi64", "gnu", "linux", "mips64r6">>>>,
       <<<<"mips64el">>, <<"abi64", "gnu", "linux", "mips64el">>>>,
       <<<<"mips64">>, <<"abi64", "gnu", "linux", "mips64">>>>,
       <<<<"powerpcspe">>, <<"spe", "gnu", "linux", "powerpc">>>>,
       <<<<"x32">>, <<"x32", "gnu", "linux", "amd64">>>>,
       <<<<"mint", "m68k">>, <<"base", "tos", "mint", "m68k">>>>,
       <<<<"hurd", "$cpu">>, <<"base", "gnu", "hurd", "$cpu">>>>,
       <<<<"freebsd", "$cpu">>, <<"base", "bsd", "freebsd", "$cpu">>>>,
       <<<<"kfreebsd", "$cpu">>, <<"base", "gnu", "kfreebsd", "$cpu">>>>,
       <<<<"openbsd", "$cpu">>, <<"base", "bsd", "openbsd", "$cpu">>>>,
       <<<<"netbsd", "$cpu">>, <<"base", "bsd", "netbsd", "$cpu">>>>,
       <<<<"darwin", "$cpu">>, <<"base", "bsd", "darwin", "$cpu">>>>,
       <<<<"kopensolaris", "$cpu">>, <<"base", "gnu", "kopensolaris", "$cpu">>>>,
       <<<<"dragonflybsd", "$cpu">>, <<"base", "bsd", "dragonflybsd", "$cpu">>>>,
       <<<<"aix", "$cpu">>, <<"base", "sysv", "aix", "$cpu">>>>,
       <<<<"solaris", "$cpu">>, <<"base", "sysv", "solaris", "$cpu">>>>,
       <<<<"musl", "linux", "$cpu">>, <<"base", "musl", "linux", "$cpu">>>>,
       <<<<"uclibc", "linux", "$cpu">>, <<"base", "uclibc", "linux", "$cpu">>>> >>

RowMatches(pattern, chunks) ==
    /\ Len(pattern) = Len(chunks)
    /\ \A i \in 1..Len(pattern) : pattern[i] = "$cpu" \/ pattern[i] = chunks[i]

RowResult(result, chunks) ==
    [i \in 1..Len(result) |-> IF result[i] = "$cpu" THEN chunks[Len(chunks)] ELSE result[i]]

\* A Rust match takes the first arm that matches.
FirstRow(rows, chunks) ==
    IF \E i \in 1..Len(rows) : RowMatches(rows[i][1], chunks)
    THEN LET i == CHOOSE i \in 1..Len(rows) :
                      /\ RowMatches(rows[i][1], chunks)
                      /\ \A k \in 1..(i - 1) : ~RowMatches(rows[k][1], chunks)
         IN  Some(RowResult(rows[i][2], chunks))
    ELSE None

\* match_tuple_to_parts!: the short name of a tuple, the tuple itself when
\* it has none.
match_tuple_to_parts(tuple) ==
    LET row == FirstRow(TupleToPartsRows, tuple)
    IN  IF IsSome(row) THEN Unwrap(row) ELSE tuple

\* match_arch_to_tuple!
match_arch_to_tuple(chunks) ==
    LET row == FirstRow(ArchToTupleRows, chunks)
    IN  IF IsSome(row)
        THEN Architecture_from_parts(Unwrap(row)[1], Unwrap(row)[2], Unwrap(row)[3], Unwrap(row)[4])
        ELSE IF Len(chunks) = 1
        THEN Architecture_from_parts("base", "gnu", "linux", chunks[1])
        ELSE IF Len(chunks) = 4
        THEN Architecture_from_parts(chunks[1], chunks[2], chunks[3], chunks[4])
        ELSE ArchErr("Malformed")

\* <Architecture as FromStr>::from_str
Architecture_from_str(chunks) ==
    IF IsEmptyText(chunks) THEN ArchErr("Malformed")
    ELSE IF \E i \in 1..Len(chunks) : ChunkContainsAny(chunks[i]) THEN wildcard_from_str(chunks)
    ELSE IF chunks = <<"source">> THEN ArchOk(SOURCE)
    ELSE IF chunks = <<"all">> THEN ArchOk(ALL)
    ELSE match_arch_to_tuple(chunks)

RECURSIVE trim_start_matches_any(_)
\* str::trim_start_matches("any-") on the joined chunks: a leading "any"
\* chunk goes, with its '-', as long as another chunk follows it.
trim_start_matches_any(chunks) ==
    IF Len(chunks) >= 2 /\ chunks[1] = "any"
    THEN trim_start_matches_any(Tail(chunks))
    ELSE chunks

\* <Architecture as Display>::fmt
Architecture_to_string(a) ==
    IF is_special(a) /\ a = ALL THEN <<"all">>
    ELSE IF is_special(a) /\ a = SOURCE THEN <<"source">>
    ELSE trim_start_matches_any(match_tuple_to_parts(<<a.abi, a.libc, a.os, a.cpu>>))


----------------------------------------------------------------------------
(* Dependency model: src/src/dependency/*.rs, src/src/build_profile/       *)
(*                                                                         *)
(* Dependency text is modelled as a sequence of tokens, white space being  *)
(* what separates them.  A token is a sequence of strings: a punctuation   *)
(* mark is <<",">>; an architecture word is its '-'-separated chunks; a    *)
(* version word is its characters (the text Version::from_str takes); a    *)
(* package, operator or profile word is one string.                        *)

Tok(mark) == <<mark>>

Punctuation == {",", "|", ":", "(", ")", "[", "]", "<", ">", "!"}

IsWord(token) == ~(Len(token) = 1 /\ token[1] \in Punctuation)

RECURSIVE Concat(_)
\* The concatenation of a sequence of sequences.
Concat(ss) == IF ss = << >> THEN << >> ELSE Head(ss) \o Concat(Tail(ss))

RECURSIVE Join(_, _)
\* [..].join(sep), sep being a sequence of tokens.
Join(ss, sep) ==
    IF ss = << >> THEN << >>
    ELSE IF Len(ss) = 1 THEN ss[1]
    ELSE ss[1] \o sep \o Join(Tail(ss), sep)

\* The rows of build_profile_table! used here: name, variant.
BuildProfileTable ==
    << <<"cross", "Cross">>, <<"stage1", "Stage1">>, <<"nocheck", "NoCheck">>,
       <<"nodoc", "NoDoc">> >>

\* <BuildProfile as FromStr>::from_str; no name used here starts with
\* "pkg.".
BuildProfile_from_str(bp) ==
    IF \E i \in 1..Len(BuildProfileTable) : bp = <<BuildProfileTable[i][1]>>
    THEN LET i == CHOOSE i \in 1..Len(BuildProfileTable) : bp = <<BuildProfileTable[i][1]>>
         IN  [variant |-> BuildProfileTable[i][2], text |-> <<"">>]
    ELSE [variant |-> "Unknown", text |-> bp]

\* <BuildProfile as Display>::fmt
BuildProfile_to_string(bp) ==
    IF bp.variant = "Unknown" THEN bp.text
    ELSE LET i == CHOOSE i \in 1..Len(BuildProfileTable) : bp.variant = BuildProfileTable[i][2]
         IN  <<BuildProfileTable[i][1]>>

\* VersionConstraint::try_from: the operator a token stands for.
VersionOperator_from_str(op) ==
    IF op = <<"==">> THEN "Equal"
    ELSE IF op = <<"=">> THEN "Equal"
    ELSE IF op = <<"<<">> THEN "LessThan"
    ELSE IF op = <<">>">> THEN "GreaterThan"
    ELSE IF op = <<">=">> THEN "GreaterThanOrEqual"
    ELSE IF op = <<"<=">> THEN "LessThanOrEqual"
    ELSE "unreachable"

\* VersionOperator::as_str
VersionOperator_as_str(operator) ==
    IF operator = "Equal" THEN <<"=">>
    ELSE IF operator = "GreaterThan" THEN <<">>">>
    ELSE IF operator = "LessThan" THEN <<"<<">>
    ELSE IF operator = "GreaterThanOrEqual" THEN <<">=">>
    ELSE <<"<=">>

\* Package { ..Default::default() }
DefaultPackage ==
    [name |-> <<"">>, arch |-> None, version_constraint |-> None, arch_constraints |-> None,
     build_profile_restriction_formula |-> None]

EmptyDependency == [relations |-> << >>]

\* <ArchConstraint as Display>::fmt
ArchConstraint_to_string(ac) ==
    (IF ac.negated THEN <<Tok("!")>> ELSE << >>) \o <<Architecture_to_string(ac.arch)>>

\* <ArchConstraints as Display>::fmt
ArchConstraints_to_string(acs) ==
    Concat([i \in 1..Len(acs.arches) |-> ArchConstraint_to_string(acs.arches[i])])

\* <BuildProfileConstraint as Display>::fmt
BuildProfileConstraint_to_string(bpc) ==
    (IF bpc.negated THEN <<Tok("!")>> ELSE << >>) \o <<BuildProfile_to_string(bpc.build_profile)>>

\* <BuildProfileConstraints as Display>::fmt
BuildProfileConstraints_to_string(bpcs) ==
    Concat([i \in 1..Len(bpcs.build_profiles) |->
               BuildProfileConstraint_to_string(bpcs.build_profiles[i])])

\* <Package as Display>::fmt
Package_to_string(p) ==
    <<p.name>>
    \o (IF IsSome(p.arch)
        THEN <<Tok(":"), Architecture_to_string(Unwrap(p.arch))>>
        ELSE << >>)
    \o (IF IsSome(p.version_constraint)
        THEN <<Tok("("), VersionOperator_as_str(Unwrap(p.version_constraint).operator),
               to_string(Unwrap(p.version_constraint).version), Tok(")")>>
        ELSE << >>)
    \o (IF IsSome(p.arch_constraints)
        THEN <<Tok("[")>> \o ArchConstraints_to_string(Unwrap(p.arch_constraints)) \o <<Tok("]")>>
        ELSE << >>)
    \o (IF IsSome(p.build_profile_restriction_formula)
        THEN LET groups == Unwrap(p.build_profile_restriction_formula).build_profile_constraints
             IN  Concat([i \in 1..Len(groups) |->
                            <<Tok("<")>> \o BuildProfileConstraints_to_string(groups[i])
                                \o <<Tok(">")>>])
        ELSE << >>)

\* <Relation as Display>::fmt
Relation_to_string(r) ==
    Join([i \in 1..Len(r.packages) |-> Package_to_string(r.packages[i])], <<Tok("|")>>)

\* <Dependency as Display>::fmt
Dependency_to_string(d) ==
    Join([i \in 1..Len(d.relations) |-> Relation_to_string(d.relations[i])], <<Tok(",")>>)

\* BuildProfileConstraint::matches
BuildProfileConstraint_matches(bpc, build_profile) ==
    LET matches == bpc.build_profile = build_profile
    IN  IF bpc.negated THEN ~matches ELSE matches

\* BuildProfileConstraints::matches: any constraint that all of the given
\* profiles match.
BuildProfileConstraints_matches(bpcs, build_profiles) ==
    \E i \in 1..Len(bpcs.build_profiles) :
        \A j \in 1..Len(build_profiles) :
            BuildProfileConstraint_matches(bpcs.build_profiles[i], build_profiles[j])

\* BuildProfileRestrictionFormula::matches
BuildProfileRestrictionFormula_matches(bprf, build_profile) ==
    \A i \in 1..Len(bprf.build_profile_constraints) :
        BuildProfileConstraints_matches(bprf.build_profile_constraints[i], build_profile)

\* The Packages of a Dependency.
PackagesOf(dep) ==
    UNION {{dep.relations[i].packages[j] : j \in 1..Len(dep.relations[i].packages)} :
              i \in 1..Len(dep.relations)}

\* A filter that keeps the relations it has emptied.
filter_keeping_empty_relations(dep, filter_fn) ==
    LET Accepted(package) == package \in filter_fn
    IN  [relations |-> [i \in 1..Len(dep.relations) |->
                           [packages |-> SelectSeq(dep.relations[i].packages, Accepted)]]]

RECURSIVE FilterSkippingFrom(_, _, _)
\* The relations from index i on; the relation after a removed one is
\* passed over as it is.
FilterSkippingFrom(relations, filter_fn, i) ==
    LET Accepted(package) == package \in filter_fn
    IN  IF i > Len(relations) THEN << >>
        ELSE IF SelectSeq(relations[i].packages, Accepted) # << >>
        THEN <<[packages |-> SelectSeq(relations[i].packages, Accepted)]>>
                 \o FilterSkippingFrom(relations, filter_fn, i + 1)
        ELSE IF i + 1 > Len(relations) THEN << >>
        ELSE <<relations[i + 1]>> \o FilterSkippingFrom(relations, filter_fn, i + 2)

\* A filter that removes while it iterates by index: the relation that
\* follows a removed one is never looked at.
filter_skipping_after_removal(dep, filter_fn) ==
    [relations |-> FilterSkippingFrom(dep.relations, filter_fn, 1)]

\* Dependency::filter; filter_fn is given as the set of the Packages it
\* returns true for.
filter(dep, filter_fn) ==
    LET Accepted(package) == package \in filter_fn
        kept == [i \in 1..Len(dep.relations) |->
                    [packages |-> SelectSeq(dep.relations[i].packages, Accepted)]]
        NotEmpty(relation) == relation.packages # << >>
    IN  [relations |-> SelectSeq(kept, NotEmpty)]

\* Whether filter_for_build_profiles keeps a Package.
KeptForBuildProfiles(package, profiles) ==
    IF package.build_profile_restriction_formula = None
    THEN TRUE
    ELSE BuildProfileRestrictionFormula_matches(
             Unwrap(package.build_profile_restriction_formula), profiles)

\* Dependency::filter_for_build_profiles
filter_for_build_profiles(dep, profiles) ==
    filter(dep, {package \in PackagesOf(dep) : KeptForBuildProfiles(package, profiles)})

\* ArchConstraint::matches
ArchConstraint_matches(ac, arch) ==
    IF ac.negated THEN ~Architecture_is(arch, ac.arch) ELSE Architecture_is(arch, ac.arch)

\* ArchConstraints::negation_policy: Ok(true) when every atom is negated,
\* Ok(false) when none is, Err(MixedNegations) otherwise.
negation_policy(acs) ==
    IF \A i \in 1..Len(acs.arches) : acs.arches[i].negated
    THEN [ok |-> TRUE, val |-> TRUE, err |-> "None"]
    ELSE IF \A i \in 1..Len(acs.arches) : ~acs.arches[i].negated
    THEN [ok |-> TRUE, val |-> FALSE, err |-> "None"]
    ELSE [ok |-> FALSE, val |-> FALSE, err |-> "MixedNegations"]

\* ArchConstraints::check: "Ok" or the error.
ArchConstraints_check(acs) ==
    IF negation_policy(acs).ok THEN "Ok" ELSE negation_policy(acs).err

\* matches that takes every list as positive.
ArchConstraints_matches_any(acs, arch) ==
    \E i \in 1..Len(acs.arches) : ArchConstraint_matches(acs.arches[i], arch)

\* matches that refuses a list of mixed negations.
ArchConstraints_matches_strict(acs, arch) ==
    /\ negation_policy(acs).ok
    /\ IF negation_policy(acs).val
       THEN \A i \in 1..Len(acs.arches) : ArchConstraint_matches(acs.arches[i], arch)
       ELSE \E i \in 1..Len(acs.arches) : ArchConstraint_matches(acs.arches[i], arch)

\* ArchConstraints::matches
ArchConstraints_matches(acs, arch) ==
    IF ~negation_policy(acs).ok THEN TRUE
    ELSE IF ~negation_policy(acs).val
    THEN \E i \in 1..Len(acs.arches) : ArchConstraint_matches(acs.arches[i], arch)
    ELSE \A i \in 1..Len(acs.arches) : ArchConstraint_matches(acs.arches[i], arch)

\* Whether filter_for_arch keeps a Package.
KeptForArch(package, arch) ==
    IF package.arch_constraints = None THEN TRUE
    ELSE ArchConstraints_matches(Unwrap(package.arch_constraints), arch)

\* Dependency::filter_for_arch
filter_for_arch(dep, arch) ==
    filter(dep, {package \in PackagesOf(dep) : KeptForArch(package, arch)})


----------------------------------------------------------------------------
(* The dependency grammar.  The pest grammar file that DependencyParser is *)
(* derived from is not part of the sources at hand; this is the grammar    *)
(* surface of the specification (section 4.2), over tokens: a dependency   *)
(* is a ','-separated list of relations, a relation a '|'-separated list   *)
(* of package atoms, an atom is  name [':' arch] constraint*.  The result  *)
(* is the tree of pest Pairs (rule, matched text, inner pairs) that the    *)
(* TryFrom implementations walk.                                           *)

Leaf(rule, str) == [rule |-> rule, str |-> str, inner |-> << >>]

Node(rule, inner) == [rule |-> rule, str |-> << >>, inner |-> inner]

NoMatch == Leaf("error", << >>)

VersionOperators == {<<"<<">>, <<"<=">>, <<"=">>, <<"==">>, <<">=">>, <<">>">>}

RECURSIVE SplitOn(_, _)
\* The pieces of a token sequence between the occurrences of a mark.
SplitOn(toks, mark) ==
    IF \E i \in 1..Len(toks) : toks[i] = mark
    THEN LET i == CHOOSE i \in 1..Len(toks) :
                      toks[i] = mark /\ \A k \in 1..(i - 1) : toks[k] # mark
         IN  <<SubSeq(toks, 1, i - 1)>> \o SplitOn(SubSeq(toks, i + 1, Len(toks)), mark)
    ELSE <<toks>>

RECURSIVE AtomPairs(_, _, _)
\* arch_atom* / profile_atom*: an optional '!' and a word, each.
AtomPairs(toks, rule, leaf) ==
    IF toks = << >> THEN << >>
    ELSE IF toks[1] = Tok("!")
    THEN IF Len(toks) >= 2 /\ IsWord(toks[2])
         THEN <<Node(rule, <<Leaf("not", toks[1]), Leaf(leaf, toks[2])>>)>>
                  \o AtomPairs(SubSeq(toks, 3, Len(toks)), rule, leaf)
         ELSE <<NoMatch>>
    ELSE IF IsWord(toks[1])
    THEN <<Node(rule, <<Leaf(leaf, toks[1])>>)>> \o AtomPairs(Tail(toks), rule, leaf)
    ELSE <<NoMatch>>

RECURSIVE ConstraintPairs(_)
\* constraint*: "(" op version ")", "[" arch_atom+ "]" or "<" profile_atom+ ">".
ConstraintPairs(toks) ==
    LET Bracketed(close, list, rule, leaf) ==
            IF \E j \in 2..Len(toks) : toks[j] = Tok(close)
            THEN LET j == CHOOSE j \in 2..Len(toks) :
                              toks[j] = Tok(close) /\ \A k \in 2..(j - 1) : toks[k] # Tok(close)
                 IN  IF j = 2 THEN <<NoMatch>>
                     ELSE <<Node(list, AtomPairs(SubSeq(toks, 2, j - 1), rule, leaf))>>
                              \o ConstraintPairs(SubSeq(toks, j + 1, Len(toks)))
            ELSE <<NoMatch>>
    IN  IF toks = << >> THEN << >>
        ELSE IF toks[1] = Tok("(")
        THEN IF /\ Len(toks) >= 4
                /\ toks[2] \in VersionOperators
                /\ IsWord(toks[3])
                /\ toks[4] = Tok(")")
             THEN <<Node("version_constraint",
                         <<Leaf("version_operator", toks[2]), Leaf("version", toks[3])>>)>>
                      \o ConstraintPairs(SubSeq(toks, 5, Len(toks)))
             ELSE <<NoMatch>>
        ELSE IF toks[1] = Tok("[")
        THEN Bracketed("]", "arch_constraints", "arch_constraint", "arch_name")
        ELSE IF toks[1] = Tok("<")
        THEN Bracketed(">", "build_profile_constraints", "build_profile_constraint",
                       "build_profile_name")
        ELSE <<NoMatch>>

\* A package atom: name [":" arch] constraint*.
PackagePair(toks) ==
    IF toks = << >> \/ ~IsWord(toks[1]) THEN NoMatch
    ELSE IF Len(toks) >= 2 /\ toks[2] = Tok(":")
    THEN IF Len(toks) >= 3 /\ IsWord(toks[3])
         THEN Node("package", <<Leaf("package_name", toks[1]), Leaf("arch_name", toks[3])>>
                                  \o ConstraintPairs(SubSeq(toks, 4, Len(toks))))
         ELSE NoMatch
    ELSE Node("package", <<Leaf("package_name", toks[1])>> \o ConstraintPairs(Tail(toks)))

RelationPair(toks) ==
    LET atoms == SplitOn(toks, Tok("|"))
    IN  Node("relation", [i \in 1..Len(atoms) |-> PackagePair(atoms[i])])

DependencyPair(toks) ==
    LET relations == SplitOn(toks, Tok(","))
    IN  Node("dependency", [i \in 1..Len(relations) |-> RelationPair(relations[i])])

RECURSIVE HasNoMatch(_)
HasNoMatch(pair) ==
    pair.rule = "error" \/ \E i \in 1..Len(pair.inner) : HasNoMatch(pair.inner[i])

\* DependencyParser::parse(Rule::dependency, v): no pair for the empty
\* text, a parse error where the grammar does not match.
DependencyParser_parse(toks) ==
    IF toks = << >> THEN [ok |-> TRUE, pairs |-> << >>]
    ELSE IF HasNoMatch(DependencyPair(toks)) THEN [ok |-> FALSE, pairs |-> << >>]
    ELSE [ok |-> TRUE, pairs |-> <<DependencyPair(toks)>>]


----------------------------------------------------------------------------
(* From the Pair tree to the AST: the TryFrom implementations.             *)

DepOk(v) == [err |-> "None", ok |-> TRUE, val |-> v]

DepErr(e, placeholder) == [err |-> e, ok |-> FALSE, val |-> placeholder]

\* The inner pairs of a rule, in order (the `match token.as_rule()` of the
\* loops, which skips every other rule).
InnerOf(token, rule) == SelectSeq(token.inner, LAMBDA pair : pair.rule = rule)

\* results.into_iter().collect::<Result<Vec<_>, _>>(): the `?` in a loop
\* that pushes every converted child.
TryCollect(results) ==
    IF \A i \in 1..Len(results) : results[i].ok
    THEN DepOk([i \in 1..Len(results) |-> results[i].val])
    ELSE LET i == CHOOSE i \in 1..Len(results) :
                      ~results[i].ok /\ \A k \in 1..(i - 1) : results[k].ok
         IN  DepErr(results[i].err, << >>)

\* The Ok value of a conversion wrapped into its struct, an Err passed on
\* (the `?` operator at the end of a loop).
MapOk(result, wrap(_), placeholder) ==
    IF result.ok THEN DepOk(wrap(result.val)) ELSE DepErr(result.err, placeholder)

\* arch.parse()? at the end of ArchConstraint::try_from.
ArchConstraintOf(negated, arch, placeholder) ==
    IF arch.ok THEN DepOk([negated |-> negated, arch |-> arch.val])
    ELSE DepErr("InvalidArch", placeholder)

\* <ArchConstraint as TryFrom<Pair>>::try_from
ArchConstraint_try_from(token) ==
    LET nots  == InnerOf(token, "not")
        names == InnerOf(token, "arch_name")
        placeholder == [negated |-> FALSE, arch |-> NoArch]
    IN  IF Len(nots) > 1 \/ names = << >>
        THEN DepErr("InvalidArchConstraint", placeholder)
        ELSE ArchConstraintOf(nots # << >>, Architecture_from_str(names[Len(names)].str),
                              placeholder)

\* <ArchConstraints as TryFrom<Pair>>::try_from
ArchConstraints_try_from(token) ==
    LET children == InnerOf(token, "arch_constraint")
        wrap(arches) == [arches |-> arches]
    IN  MapOk(TryCollect([i \in 1..Len(children) |-> ArchConstraint_try_from(children[i])]),
              wrap, [arches |-> << >>])

\* <BuildProfileConstraint as TryFrom<Pair>>::try_from
BuildProfileConstraint_try_from(token) ==
    LET nots  == InnerOf(token, "not")
        names == InnerOf(token, "build_profile_name")
    IN  IF Len(nots) > 1 \/ names = << >>
        THEN DepErr("InvalidBuildProfileConstraint",
                    [negated |-> FALSE, build_profile |-> BuildProfile_from_str(<<"">>)])
        ELSE DepOk([negated |-> nots # << >>,
                    build_profile |-> BuildProfile_from_str(names[Len(names)].str)])

\* <BuildProfileConstraints as TryFrom<Pair>>::try_from
BuildProfileConstraints_try_from(token) ==
    LET children == InnerOf(token, "build_profile_constraint")
        wrap(profiles) == [build_profiles |-> profiles]
    IN  MapOk(TryCollect([i \in 1..Len(children) |->
                             BuildProfileConstraint_try_from(children[i])]),
              wrap, [build_profiles |-> << >>])

\* The end of VersionConstraint::try_from: `version` is the outcome of
\* token.as_str().parse() where there was a version token.
VersionConstraintOf(operators, version) ==
    LET placeholder == [operator |-> "Equal", version |-> Version(None, << >>, None)]
    IN  IF IsSome(version) /\ ~Unwrap(version).ok THEN DepErr("InvalidVersion", placeholder)
        ELSE IF operators = << >> \/ version = None
        THEN DepErr("InvalidVersionConstraint", placeholder)
        ELSE DepOk([operator |-> VersionOperator_from_str(operators[Len(operators)].str),
                    version  |-> Unwrap(version).v])

\* <VersionConstraint as TryFrom<Pair>>::try_from
VersionConstraint_try_from(token) ==
    LET versions == InnerOf(token, "version")
    IN  VersionConstraintOf(InnerOf(token, "version_operator"),
                            IF versions = << >> THEN None
                            ELSE Some(from_str(versions[Len(versions)].str)))

\* The arms of the match in Package::try_from, `ret` being the Package
\* built so far and the last argument the converted inner pair.
PackageWithArch(ret, arch) ==
    IF ~arch.ok THEN DepErr("InvalidArch", DefaultPackage)
    ELSE DepOk([ret EXCEPT !.arch = Some(arch.val)])

PackageWithVersion(ret, version_constraint) ==
    IF ~version_constraint.ok THEN DepErr(version_constraint.err, DefaultPackage)
    ELSE DepOk([ret EXCEPT !.version_constraint = Some(version_constraint.val)])

PackageWithArches(ret, arch_constraints) ==
    IF ~arch_constraints.ok THEN DepErr(arch_constraints.err, DefaultPackage)
    ELSE DepOk([ret EXCEPT !.arch_constraints = Some(arch_constraints.val)])

PackageWithProfiles(ret, group) ==
    LET bprf == IF ret.build_profile_restriction_formula = None
                THEN [build_profile_constraints |-> << >>]
                ELSE Unwrap(ret.build_profile_restriction_formula)
    IN  IF ~group.ok THEN DepErr(group.err, DefaultPackage)
        ELSE DepOk([ret EXCEPT !.build_profile_restriction_formula =
                        Some([build_profile_constraints |->
                                  Append(bprf.build_profile_constraints, group.val)])])

\* One turn of the loop of Package::try_from.
PackageStep(ret, c) ==
    IF c.rule = "package_name" THEN DepOk([ret EXCEPT !.name = c.str])
    ELSE IF c.rule = "arch_name"
    THEN IF IsSome(ret.arch) THEN DepErr("InvalidPackage", DefaultPackage)
         ELSE PackageWithArch(ret, Architecture_from_str(c.str))
    ELSE IF c.rule = "version_constraint"
    THEN IF IsSome(ret.version_constraint) THEN DepErr("TooManyVersions", DefaultPackage)
         ELSE PackageWithVersion(ret, VersionConstraint_try_from(c))
    ELSE IF c.rule = "arch_constraints"
    THEN IF IsSome(ret.arch_constraints) THEN DepErr("TooManyArches", DefaultPackage)
         ELSE PackageWithArches(ret, ArchConstraints_try_from(c))
    ELSE IF c.rule = "build_profile_constraints"
    THEN PackageWithProfiles(ret, BuildProfileConstraints_try_from(c))
    ELSE DepOk(ret)

RECURSIVE PackageFold(_, _)
\* The loop of Package::try_from over the inner pairs: it ends at the
\* first error.
PackageFold(children, ret) ==
    IF children = << >> \/ ~ret.ok THEN ret
    ELSE PackageFold(Tail(children), PackageStep(ret.val, Head(children)))

\* <Package as TryFrom<Pair>>::try_from
Package_try_from(token) == PackageFold(token.inner, DepOk(DefaultPackage))

\* <Relation as TryFrom<Pair>>::try_from
Relation_try_from(token) ==
    LET children == InnerOf(token, "package")
        wrap(packages) == [packages |-> packages]
    IN  MapOk(TryCollect([i \in 1..Len(children) |-> Package_try_from(children[i])]),
              wrap, [packages |-> << >>])

\* <Dependency as TryFrom<Pair>>::try_from
Dependency_try_from(token) ==
    LET children == InnerOf(token, "relation")
        wrap(relations) == [relations |-> relations]
    IN  MapOk(TryCollect([i \in 1..Len(children) |-> Relation_try_from(children[i])]),
              wrap, EmptyDependency)

\* The outcome of from_str for what DependencyParser::parse returned.
DependencyOf(parsed) ==
    IF ~parsed.ok THEN DepErr("Parse", EmptyDependency)
    ELSE IF parsed.pairs = << >> THEN DepOk(EmptyDependency)
    ELSE Dependency_try_from(parsed.pairs[1])

\* <Dependency as FromStr>::from_str
Dependency_from_str(v) == DependencyOf(DependencyParser_parse(v))

----------------------------------------------------------------------------
(* The dependency engine as a state machine: a text is parsed, the AST is  *)
(* rendered and the rendering parsed again; the AST is filtered for a list *)
(* of active build profiles.                                               *)

MaxActiveProfiles == 2

DepNames == {<<"foo">>}

DepArchLabels == {<< >>, <<Tok(":"), <<"amd64">>>>, <<Tok(":"), <<"any">>>>}

DepVersionConstraints ==
    {<< >>,
     <<Tok("("), <<"=">>, <<"1">>, Tok(")")>>,
     <<Tok("("), <<"==">>, <<"1", ".", "0">>, Tok(")")>>}

DepArchLists ==
    {<< >>,
     <<Tok("["), <<"amd64">>, Tok("]")>>,
     <<Tok("["), <<"any", "amd64">>, Tok("]")>>,
     <<Tok("["), <<"linux", "any">>, Tok("]")>>,
     <<Tok("["), Tok("!"), <<"amd64">>, Tok("!"), <<"hurd", "i386">>, Tok("]")>>,
     <<Tok("["), <<"amd64">>, Tok("!"), <<"armhf">>, Tok("]")>>}

DepProfileGroups ==
    {<< >>,
     <<Tok("<"), <<"nocheck">>, Tok(">")>>,
     <<Tok("<"), Tok("!"), <<"nocheck">>, Tok(">")>>,
     <<Tok("<"), <<"nocheck">>, <<"cross">>, Tok(">")>>,
     <<Tok("<"), Tok("!"), <<"nocheck">>, Tok("!"), <<"cross">>, Tok(">")>>,
     <<Tok("<"), <<"nocheck">>, Tok(">"), Tok("<"), Tok("!"), <<"cross">>, Tok(">")>>,
     <<Tok("<"), <<"mine">>, Tok(">")>>}

\* One package atom, every combination of qualifiers.
DepAtoms ==
    {<<n>> \o a \o v \o l \o g :
        n \in DepNames, a \in DepArchLabels, v \in DepVersionConstraints,
        l \in DepArchLists, g \in DepProfileGroups}

\* Texts of more than one atom, the empty text, and texts the parser
\* refuses.
DepExtraInputs ==
    {<< >>,
     <<<<"foo">>, Tok("|"), <<"bar">>, Tok("<"), <<"nocheck">>, Tok(">"), Tok(","), <<"baz">>,
       Tok("["), <<"any", "amd64">>, Tok("]")>>,
     <<<<"foo">>, Tok("<"), <<"cross">>, Tok(">"), Tok(","), <<"bar">>, Tok("<"), Tok("!"),
       <<"cross">>, Tok(">")>>,
     <<<<"foo">>, Tok("|")>>,
     <<Tok("["), <<"amd64">>, Tok("]")>>,
     <<<<"foo">>, Tok("["), <<"amd64">>, Tok("]"), Tok("["), <<"armhf">>, Tok("]")>>,
     <<<<"foo">>, Tok("("), <<"=">>, <<"a">>, Tok(")")>>,
     <<<<"foo">>, Tok("["), <<"a", "b", "c", "d", "e">>, Tok("]")>>}

DepInputs == DepAtoms \cup DepExtraInputs

ActiveProfileNames == {<<"nocheck">>, <<"cross">>}

\* The slices of active build profiles handed to the filter.
ActiveProfileLists ==
    {[i \in 1..Len(names) |-> BuildProfile_from_str(names[i])] :
        names \in SeqsUpTo(ActiveProfileNames, MaxActiveProfiles)}

DepInit == VersionIdle /\ DepIdle /\ StreamIdle /\ FieldIdle /\ ArchIdle /\ FileIdle

\* s.parse::<Dependency>()
ParseDependency(s) ==
    /\ dast = None
    /\ dsrc' = s
    /\ dast' = Some(Dependency_from_str(s))
    /\ UNCHANGED <<dout, dback, dprof, darch, dfilt, dcheck, versionVars, streamVars, fieldVars, archVars, fileVars>>

\* dep.to_string()
RenderDependency ==
    /\ IsSome(dast)
    /\ Unwrap(dast).ok
    /\ dout = None
    /\ dout' = Some(Dependency_to_string(Unwrap(dast).val))
    /\ UNCHANGED <<dsrc, dast, dback, dprof, darch, dfilt, dcheck, versionVars, streamVars, fieldVars, archVars, fileVars>>

\* dep.to_string().parse::<Dependency>()
ReparseDependency ==
    /\ IsSome(dout)
    /\ dback = None
    /\ dback' = Some(Dependency_from_str(Unwrap(dout)))
    /\ UNCHANGED <<dsrc, dast, dout, dprof, darch, dfilt, dcheck, versionVars, streamVars, fieldVars, archVars, fileVars>>

\* dep.filter_for_build_profiles(&profiles)
FilterForBuildProfiles(profiles) ==
    /\ IsSome(dast)
    /\ Unwrap(dast).ok
    /\ dprof = None
    /\ dprof' = Some([profiles |-> profiles,
                      result   |-> filter_for_build_profiles(Unwrap(dast).val, profiles)])
    /\ UNCHANGED <<dsrc, dast, dout, dback, darch, dfilt, dcheck, versionVars, streamVars, fieldVars, archVars, fileVars>>

DepNext ==
    \/ \E s \in DepInputs : ParseDependency(s)
    \/ RenderDependency
    \/ ReparseDependency
    \/ \E profiles \in ActiveProfileLists : FilterForBuildProfiles(profiles)

DepSpec == DepInit /\ [][DepNext]_vars

----------------------------------------------------------------------------
(* The filters as a state machine: a Dependency is parsed from a text of   *)
(* several relations, or built from its public fields; it is filtered with *)
(* a predicate, for an architecture (and the result filtered again), and   *)
(* for a list of active build profiles; its architecture lists are         *)
(* checked.                                                                *)

FilterArchLists ==
    {<< >>,
     <<Tok("["), <<"amd64">>, Tok("]")>>,
     <<Tok("["), <<"armel">>, Tok("]")>>,
     <<Tok("["), Tok("!"), <<"amd64">>, Tok("]")>>,
     <<Tok("["), <<"sparc">>, <<"amd64">>, Tok("]")>>,
     <<Tok("["), Tok("!"), <<"sparc">>, Tok("!"), <<"amd64">>, Tok("]")>>,
     <<Tok("["), <<"amd64">>, Tok("!"), <<"amd64">>, Tok("]")>>,
     <<Tok("["), <<"amd64">>, Tok("!"), <<"sparc">>, Tok("]")>>,
     <<Tok("["), Tok("!"), <<"armel">>, <<"sparc">>, Tok("]")>>,
     <<Tok("["), <<"linux", "any">>, Tok("]")>>,
     <<Tok("["), Tok("!"), <<"any", "amd64">>, Tok("]")>>}

FilterProfileGroups ==
    {<< >>,
     <<Tok("<"), <<"nocheck">>, Tok(">")>>,
     <<Tok("<"), Tok("!"), <<"cross">>, Tok(">")>>}

\* One atom, two atoms in one relation, two relations of one atom, and
\* texts of three relations.
FilterInputs ==
    {<<<<"foo">>>> \o l \o g : l \in FilterArchLists, g \in FilterProfileGroups}
        \cup {<<<<"foo">>>> \o l \o <<Tok("|"), <<"bar">>>> \o m :
                  l \in FilterArchLists, m \in FilterArchLists}
        \cup {<<<<"foo">>>> \o l \o <<Tok(","), <<"bar">>>> \o m :
                  l \in FilterArchLists, m \in FilterArchLists}
        \cup {<< >>,
              <<<<"foo">>, Tok(","), <<"bar">>, Tok("["), Tok("!"), <<"amd64">>, Tok("]"),
                Tok("|"), <<"baz">>>>,
              <<<<"foo">>, Tok("["), <<"armel">>, Tok("]"), Tok(","), <<"bar">>, Tok("["),
                <<"armel">>, Tok("]"), Tok(","), <<"baz">>>>,
              <<<<"foo">>, Tok(","), <<"bar">>, Tok("<"), Tok("!"), <<"nocheck">>, Tok(">")>>,
              <<<<"foo">>, Tok("<"), <<"nocheck">>, Tok(">"), Tok(","), <<"bar">>, Tok("<"),
                <<"cross">>, Tok(">")>>,
              <<<<"foo">>, Tok("|")>>}

\* Dependency values written as struct literals: a Relation without
\* Packages, alone and before a Relation of one Package.
ConstructedDependencies ==
    {[relations |-> <<[packages |-> << >>]>>],
     [relations |-> <<[packages |-> << >>],
                      [packages |-> <<[DefaultPackage EXCEPT !.name = <<"foo">>]>>]>>]}

FilterNames == {<<"foo">>, <<"bar">>}

\* The predicates handed to filter: |package| names.contains(&package.name)
FilterPredicates == SUBSET FilterNames

\* The architectures handed to filter_for_arch.
FilterArchitectures ==
    {Architecture_from_str(<<"amd64">>).val, Architecture_from_str(<<"armel">>).val,
     Architecture_from_str(<<"sparc">>).val}

\* Dependency { relations: vec![...] }
ConstructDependency(d) ==
    /\ dast = None
    /\ dsrc' = << >>
    /\ dast' = Some([ok |-> TRUE, val |-> d, err |-> "None"])
    /\ UNCHANGED <<dout, dback, dprof, darch, dfilt, dcheck, versionVars, streamVars, fieldVars, archVars, fileVars>>

\* dep.filter(|package| names.contains(&package.name))
FilterWith(names) ==
    /\ IsSome(dast)
    /\ Unwrap(dast).ok
    /\ dfilt = None
    /\ dfilt' = Some([names  |-> names,
                      result |-> filter(Unwrap(dast).val,
                                        {package \in PackagesOf(Unwrap(dast).val) :
                                             package.name \in names})])
    /\ UNCHANGED <<dsrc, dast, dout, dback, dprof, darch, dcheck, versionVars, streamVars,
                   fieldVars, archVars, fileVars>>

\* dep.filter_for_arch(&arch)
FilterForArch(arch) ==
    /\ IsSome(dast)
    /\ Unwrap(dast).ok
    /\ darch = None
    /\ darch' = Some([arch   |-> arch,
                      result |-> filter_for_arch(Unwrap(dast).val, arch),
                      again  |-> None])
    /\ UNCHANGED <<dsrc, dast, dout, dback, dprof, dfilt, dcheck, versionVars, streamVars,
                   fieldVars, archVars, fileVars>>

\* dep.filter_for_arch(&arch).filter_for_arch(&arch)
FilterAgainForArch ==
    /\ IsSome(darch)
    /\ Unwrap(darch).again = None
    /\ darch' = Some([Unwrap(darch) EXCEPT
                         !.again = Some(filter_for_arch(Unwrap(darch).result,
                                                        Unwrap(darch).arch))])
    /\ UNCHANGED <<dsrc, dast, dout, dback, dprof, dfilt, dcheck, versionVars, streamVars,
                   fieldVars, archVars, fileVars>>

\* arch_constraints.check() for every Package that carries a list.
CheckArchConstraints ==
    /\ IsSome(dast)
    /\ Unwrap(dast).ok
    /\ dcheck = None
    /\ dcheck' = Some([package \in {p \in PackagesOf(Unwrap(dast).val) :
                                        p.arch_constraints # None} |->
                           ArchConstraints_check(Unwrap(package.arch_constraints))])
    /\ UNCHANGED <<dsrc, dast, dout, dback, dprof, darch, dfilt, versionVars, streamVars,
                   fieldVars, archVars, fileVars>>

FilterNext ==
    \/ \E s \in FilterInputs : ParseDependency(s)
    \/ \E d \in ConstructedDependencies : ConstructDependency(d)
    \/ \E names \in FilterPredicates : FilterWith(names)
    \/ \E arch \in FilterArchitectures : FilterForArch(arch)
    \/ FilterAgainForArch
    \/ CheckArchConstraints
    \/ \E profiles \in ActiveProfileLists : FilterForBuildProfiles(profiles)

FilterSpec == DepInit /\ [][FilterNext]_vars

----------------------------------------------------------------------------
(* Claims about the dependency engine.                                     *)

\* The profile formula as the specification words it: a positive atom
\* holds iff its profile is active, a negated atom iff it is not; a group
\* holds if any atom does; the formula holds if every group does.
ProfileAtomHolds(atom, active) ==
    IF atom.negated THEN atom.build_profile \notin active ELSE atom.build_profile \in active

ProfileFormulaHolds(package, active) ==
    package.build_profile_restriction_formula # None =>
        \A i \in 1..Len(Unwrap(package.build_profile_restriction_formula).build_profile_constraints) :
            LET group == Unwrap(package.build_profile_restriction_formula)
                             .build_profile_constraints[i].build_profiles
            IN  \E j \in 1..Len(group) : ProfileAtomHolds(group[j], active)

\* C5: filtering for a set of active build profiles keeps exactly the
\* package atoms whose profile formula holds: every group has an atom that
\* holds, p holding iff p is active and !p iff p is not active, whatever the
\* size of the active set (empty, one, several).
C5_ProfileFormulaSemantics ==
    IsSome(dprof) =>
        LET active == {Unwrap(dprof).profiles[i] : i \in 1..Len(Unwrap(dprof).profiles)}
        IN  Unwrap(dprof).result =
                filter(Unwrap(dast).val,
                       {package \in PackagesOf(Unwrap(dast).val) :
                            ProfileFormulaHolds(package, active)})

\* C9: for every dependency text the parser accepts, the rendering of the
\* AST is accepted by the parser and parses to an equal AST, wildcard
\* architectures in the qualifier or in the architecture list included.
C9_DependencyRoundTrip ==
    IsSome(dback) => Unwrap(dback).ok /\ Unwrap(dback).val = Unwrap(dast).val


\* The k-th smallest element of a set of indices.
NthIndex(indices, k) ==
    CHOOSE i \in indices : Cardinality({m \in indices : m <= i}) = k

\* The positions of a relation whose Package bears one of the names.
NamedPositions(relation, names) ==
    {j \in 1..Len(relation.packages) : relation.packages[j].name \in names}

\* The relations of a Dependency that have a Package of one of the names.
NamedRelations(dep, names) ==
    {i \in 1..Len(dep.relations) : NamedPositions(dep.relations[i], names) # {}}

\* A result is the restriction of dep to the Packages of the names: as
\* many relations as dep has relations with such a Package, the k-th being
\* the k-th of those, reduced to its Packages of the names, in their order.
IsRestriction(result, dep, names) ==
    /\ Len(result.relations) = Cardinality(NamedRelations(dep, names))
    /\ \A k \in 1..Len(result.relations) :
          LET relation == dep.relations[NthIndex(NamedRelations(dep, names), k)]
          IN  /\ Len(result.relations[k].packages)
                    = Cardinality(NamedPositions(relation, names))
              /\ \A n \in 1..Len(result.relations[k].packages) :
                    result.relations[k].packages[n]
                        = relation.packages[NthIndex(NamedPositions(relation, names), n)]

\* C16: filter(dep, pred) returns a new dependency whose relations are, in
\* their original order, the relations of dep restricted to exactly the
\* package atoms that satisfy pred, the atoms in their original order and
\* every relation left without atoms removed; dep itself is not modified
\* by the call.
C16_FilterRestricts ==
    [][(dfilt = None /\ IsSome(dfilt'))
          => /\ dast' = dast
             /\ IsRestriction(Unwrap(dfilt').result, Unwrap(dast).val, Unwrap(dfilt').names)]_vars

\* A relation emptied and removed before a relation that is kept, and a
\* relation that loses one of its two atoms.
C16_Witness ==
    /\ IsSome(dfilt)
    /\ \/ /\ Len(Unwrap(dast).val.relations) >= 2
          /\ 1 \notin NamedRelations(Unwrap(dast).val, Unwrap(dfilt).names)
          /\ 2 \in NamedRelations(Unwrap(dast).val, Unwrap(dfilt).names)
          /\ Len(Unwrap(dfilt).result.relations) = 1
       \/ /\ Len(Unwrap(dast).val.relations) = 1
          /\ Len(Unwrap(dast).val.relations[1].packages) = 2
          /\ Len(Unwrap(dfilt).result.relations) = 1
          /\ Len(Unwrap(dfilt).result.relations[1].packages) = 1


\* An architecture list as the specification words it: a list of positive
\* atoms is satisfied if the target matches any of them, a list of negated
\* atoms if it matches none, a mixed list always; no list is no constraint.
ArchListSatisfied(package, target) ==
    package.arch_constraints # None =>
        LET arches == Unwrap(package.arch_constraints).arches
        IN  IF \A i \in 1..Len(arches) : ~arches[i].negated
            THEN \E i \in 1..Len(arches) : Architecture_is(target, arches[i].arch)
            ELSE IF \A i \in 1..Len(arches) : arches[i].negated
            THEN \A i \in 1..Len(arches) : ~Architecture_is(target, arches[i].arch)
            ELSE TRUE

\* C17: for any Dependency value and any target, an architecture or a set
\* of active build profiles, that satisfies every package atom of it,
\* filtering the Dependency for that target returns an AST equal to it.
C17_SatisfiedIsUnchanged ==
    /\ (IsSome(darch) /\ \A package \in PackagesOf(Unwrap(dast).val) :
                             ArchListSatisfied(package, Unwrap(darch).arch))
           => Unwrap(darch).result = Unwrap(dast).val
    /\ (IsSome(dprof) /\ \A package \in PackagesOf(Unwrap(dast).val) :
                             ProfileFormulaHolds(package,
                                 {Unwrap(dprof).profiles[i] :
                                      i \in 1..Len(Unwrap(dprof).profiles)}))
           => Unwrap(dprof).result = Unwrap(dast).val


\* C18: filter_for_arch is idempotent: filtering the result of
\* filter_for_arch(d, a) for the same architecture a again returns that
\* result.
C18_ArchFilterIdempotent ==
    (IsSome(darch) /\ IsSome(Unwrap(darch).again))
        => Unwrap(Unwrap(darch).again) = Unwrap(darch).result

\* A first pass that removed a relation and kept another, filtered again.
C18_Witness ==
    /\ IsSome(darch)
    /\ IsSome(Unwrap(darch).again)
    /\ Unwrap(darch).result # Unwrap(dast).val
    /\ Unwrap(darch).result.relations # << >>
    /\ Len(Unwrap(darch).result.relations) < Len(Unwrap(dast).val.relations)

\* The architecture lists of one kind only.
AllPositive(package) ==
    /\ package.arch_constraints # None
    /\ \A i \in 1..Len(Unwrap(package.arch_constraints).arches) :
          ~Unwrap(package.arch_constraints).arches[i].negated

AllNegated(package) ==
    /\ package.arch_constraints # None
    /\ \A i \in 1..Len(Unwrap(package.arch_constraints).arches) :
          Unwrap(package.arch_constraints).arches[i].negated

\* The architectures a list names.
ListedArchitectures(package) ==
    {Unwrap(package.arch_constraints).arches[i].arch :
        i \in 1..Len(Unwrap(package.arch_constraints).arches)}

MixedNegations(package) ==
    /\ package.arch_constraints # None
    /\ ~AllPositive(package)
    /\ ~AllNegated(package)

----------------------------------------------------------------------------
(* Architectures as a state machine: Architectures are parsed from texts   *)
(* or made from their parts; one is matched against another; they are      *)
(* rendered and the renderings parsed again.                               *)

ArchAbis == {"", "any", "base"}

ArchLibcs == {"", "any", "gnu"}

ArchOses == {"", "any", "linux"}

ArchCpus == {"any", "amd64", "source", "all"}

\* Texts of a target and of a pattern.
ArchPairInputs ==
    {<<"source">>, <<"all">>, <<"any">>, <<"amd64">>, <<"armel">>, <<"linux", "any">>,
     <<"any", "amd64">>, <<"hurd", "amd64">>, <<"gnu", "linux", "any">>, <<"">>,
     <<"linux", "amd64">>}

MaxArchChunks == 4

ArchChunks == {"any", "amd64", "linux", "gnu", "base", "musl", "armel"}

\* Every text of up to MaxArchChunks chunks, the special names and names
\* in upper case.
ArchRenderInputs ==
    (SeqsUpTo(ArchChunks, MaxArchChunks) \ {<< >>})
        \cup {<<"">>, <<"source">>, <<"all">>, <<"AMD64">>, <<"ANY">>, <<"hurd", "any">>,
              <<"x32">>, <<"mint", "m68k">>}

\* text.parse::<Architecture>()
ParseArchitecture(cap, chunks) ==
    /\ Len(archs) < cap
    /\ ais = None
    /\ aout = None
    /\ archs' = Append(archs, [r |-> Architecture_from_str(chunks), src |-> chunks,
                               via |-> "from_str"])
    /\ UNCHANGED <<ais, aout, aback, versionVars, depVars, streamVars, fieldVars, fileVars>>

\* Architecture::from_parts(abi, libc, os, cpu)
ConstructArchitecture(cap, abi, libc, os, cpu) ==
    /\ Len(archs) < cap
    /\ ais = None
    /\ aout = None
    /\ archs' = Append(archs, [r |-> Architecture_from_parts(abi, libc, os, cpu),
                               src |-> << >>, via |-> "from_parts"])
    /\ UNCHANGED <<ais, aout, aback, versionVars, depVars, streamVars, fieldVars, fileVars>>

\* target.is(&pattern) for the first Architecture made and the second.
MatchArchitecture ==
    /\ Len(archs) = 2
    /\ archs[1].r.ok
    /\ archs[2].r.ok
    /\ ais = None
    /\ ais' = Some(Architecture_is(archs[1].r.val, archs[2].r.val))
    /\ UNCHANGED <<archs, aout, aback, versionVars, depVars, streamVars, fieldVars, fileVars>>

\* arch.to_string() for the Architecture made.
RenderArchitecture ==
    /\ Len(archs) = 1
    /\ archs[1].r.ok
    /\ aout = None
    /\ aout' = Some(Architecture_to_string(archs[1].r.val))
    /\ UNCHANGED <<archs, ais, aback, versionVars, depVars, streamVars, fieldVars, fileVars>>

\* arch.to_string().parse::<Architecture>()
ReparseArchitecture ==
    /\ IsSome(aout)
    /\ aback = None
    /\ aback' = Some(Architecture_from_str(Unwrap(aout)))
    /\ UNCHANGED <<archs, ais, aout, versionVars, depVars, streamVars, fieldVars, fileVars>>

\* A target and a pattern, matched.
ArchNext ==
    \/ \E chunks \in ArchPairInputs : ParseArchitecture(2, chunks)
    \/ \E abi \in ArchAbis, libc \in ArchLibcs, os \in ArchOses, cpu \in ArchCpus :
          ConstructArchitecture(2, abi, libc, os, cpu)
    \/ MatchArchitecture

ArchSpec == VersionInit /\ [][ArchNext]_vars

\* One Architecture, parsed, rendered and parsed again.
ArchRenderNext ==
    \/ \E chunks \in ArchRenderInputs : ParseArchitecture(1, chunks)
    \/ RenderArchitecture
    \/ ReparseArchitecture

ArchRenderSpec == VersionInit /\ [][ArchRenderNext]_vars

----------------------------------------------------------------------------
(* Claims about architectures.                                             *)

\* C21: target.is(pattern) is true iff every field (abi, libc, os, cpu) of
\* the pattern is either "any" or equal to the field of the target, except
\* that source and all match only themselves: as target they match no
\* other pattern, "any" included, and as pattern they are matched by no
\* other target.
C21_IsMatchesFieldwise ==
    IsSome(ais) =>
        LET target == archs[1].r.val
            pattern == archs[2].r.val
        IN  Unwrap(ais) <=>
                IF target \in {SOURCE, ALL} \/ pattern \in {SOURCE, ALL}
                THEN target = pattern
                ELSE /\ pattern.abi \in {"any", target.abi}
                     /\ pattern.libc \in {"any", target.libc}
                     /\ pattern.os \in {"any", target.os}
                     /\ pattern.cpu \in {"any", target.cpu}

\* source matched against the pattern any, and refused.
C21_Witness ==
    /\ IsSome(ais)
    /\ archs[1].r.val = SOURCE
    /\ archs[2].r.val = ANY
    /\ ~Unwrap(ais)


\* C28: for every text the Architecture parser accepts, wildcard forms
\* with "any" in any position included, the rendering of the parsed
\* Architecture is accepted by the parser and parses to an equal
\* Architecture.
C28_ArchitectureRoundTrip ==
    IsSome(aback) => Unwrap(aback).ok /\ Unwrap(aback).val = archs[1].r.val


----------------------------------------------------------------------------
(* Control paragraphs and the stream driver: src/src/control/paragraph.rs, *)
(* src/src/control/de/mod.rs, src/src/control/de/paragraph.rs              *)
(*                                                                         *)
(* The reader's input is a sequence of lines.  A line is a field line      *)
(* "Key: value", an empty line, a line of one space, or a line that is no  *)
(* field ("Foo bar: 1"); nl tells whether the line ends with '\n' (only    *)
(* the last line of an input may lack it).  Keys and values are atomic.    *)

FieldLine(key, value, nl) == [kind |-> "field", key |-> key, value |-> value, nl |-> nl]

EmptyLine == [kind |-> "empty", key |-> "", value |-> "", nl |-> TRUE]

SpaceLine(nl) == [kind |-> "space", key |-> "", value |-> "", nl |-> nl]

BadLine(nl) == [kind |-> "bad", key |-> "", value |-> "", nl |-> nl]

\* Bytes of the line without its terminator: "" / " " / "Foo bar: 1" /
\* "Hello: World" (no key or value used here is shorter than one byte).
ContentBytes(line) ==
    IF line.kind = "empty" THEN 0
    ELSE IF line.kind = "space" THEN 1
    ELSE 10

\* What read_line returns for the line: the number of bytes appended.
LineBytes(line) == ContentBytes(line) + (IF line.nl THEN 1 ELSE 0)

IsWhiteLine(line) == line.kind \in {"empty", "space"}

\* buf.trim().is_empty()
TrimIsEmpty(buf) == \A i \in 1..Len(buf) : IsWhiteLine(buf[i])

\* buf.ends_with('\n')
EndsWithNewline(buf) == buf # << >> /\ buf[Len(buf)].nl

RECURSIVE TrimStartLines(_)
\* str::trim_start on the text of a buffer: the leading white lines go.
TrimStartLines(buf) ==
    IF buf # << >> /\ IsWhiteLine(buf[1]) THEN TrimStartLines(Tail(buf)) ELSE buf

ParagraphOk(fields) == [err |-> "None", ok |-> TRUE, fields |-> fields]

ParagraphErr(e) == [err |-> e, ok |-> FALSE, fields |-> << >>]

\* The length of the run of field lines a text starts with.
FieldRunLen(lines) ==
    IF \E i \in 1..Len(lines) : lines[i].kind # "field"
    THEN (CHOOSE i \in 1..Len(lines) :
              lines[i].kind # "field" /\ \A k \in 1..(i - 1) : lines[k].kind = "field") - 1
    ELSE Len(lines)

\* RawParagraph::parse.  The pest grammar of Deb822Parser is not part of
\* the sources at hand; this is the tokenizer contract of the specification
\* (section 4.3), which the tests of paragraph.rs agree with: one run of
\* field lines, then white lines only (a white line ends the paragraph, a
\* second paragraph or a line that is no field is an error).
RawParagraph_parse(lines) ==
    LET n == FieldRunLen(lines)
    IN  IF n = 0 THEN ParagraphErr("Parse")
        ELSE IF \E i \in (n + 1)..Len(lines) : ~IsWhiteLine(lines[i]) THEN ParagraphErr("Parse")
        ELSE ParagraphOk([i \in 1..n |-> <<lines[i].key, lines[i].value>>])

DeOk(v) == [err |-> "None", ok |-> TRUE, val |-> v]

DeErr(e) == [err |-> e, ok |-> FALSE, val |-> [hello |-> ""]]

\* One turn of the loop of the visit_map that #[derive(Deserialize)]
\* generates for TestControl { #[serde(rename = "Hello")] hello: String }:
\* `hello` is the Option<String> filled so far.  MapWrapper hands over
\* every key and value of the paragraph, in order.
VisitMapStep(hello, field) ==
    IF field[1] = "Hello"
    THEN IF IsSome(hello.val)
         THEN [err |-> "De(duplicate field Hello)", ok |-> FALSE, val |-> hello.val]
         ELSE [err |-> "None", ok |-> TRUE, val |-> Some(field[2])]
    ELSE hello

RECURSIVE VisitMapFold(_, _)
VisitMapFold(fields, hello) ==
    IF fields = << >> \/ ~hello.ok THEN hello
    ELSE VisitMapFold(Tail(fields), VisitMapStep(hello, Head(fields)))

\* The end of visit_map: a field never seen is missing.
VisitMapEnd(hello) ==
    IF ~hello.ok THEN DeErr(hello.err)
    ELSE IF hello.val = None THEN DeErr("De(missing field Hello)")
    ELSE DeOk([hello |-> Unwrap(hello.val)])

\* from_raw_paragraph::<TestControl>
from_raw_paragraph(fields) ==
    VisitMapEnd(VisitMapFold(fields, [err |-> "None", ok |-> TRUE, val |-> None]))

\* The `?` of de::from_str after RawParagraph::parse.
DecodeParsed(rp) == IF rp.ok THEN from_raw_paragraph(rp.fields) ELSE DeErr("ParseError")

\* control::de::from_str::<TestControl>
de_from_str(buf) == DecodeParsed(RawParagraph_parse(TrimStartLines(buf)))

EndOfFile == DeErr("EndOfFile")

\* A turn of the loop that answers the end of the input with EndOfFile
\* whatever buf holds.
ReadLineStep_dropping_tail(input, pos, buf) ==
    IF pos >= Len(input)
    THEN [done |-> TRUE, pos |-> pos, buf |-> buf, res |-> EndOfFile]
    ELSE IF /\ LineBytes(input[pos + 1]) = 1
            /\ EndsWithNewline(Append(buf, input[pos + 1]))
            /\ ~TrimIsEmpty(Append(buf, input[pos + 1]))
    THEN [done |-> TRUE, pos |-> pos + 1, buf |-> Append(buf, input[pos + 1]),
          res |-> de_from_str(Append(buf, input[pos + 1]))]
    ELSE [done |-> FALSE, pos |-> pos + 1, buf |-> Append(buf, input[pos + 1]),
          res |-> EndOfFile]

\* A turn of the loop that decodes buf at the end of the input whatever
\* it holds.
ReadLineStep_decoding_tail(input, pos, buf) ==
    IF pos >= Len(input)
    THEN [done |-> TRUE, pos |-> pos, buf |-> buf, res |-> de_from_str(buf)]
    ELSE IF /\ LineBytes(input[pos + 1]) = 1
            /\ EndsWithNewline(Append(buf, input[pos + 1]))
            /\ ~TrimIsEmpty(Append(buf, input[pos + 1]))
    THEN [done |-> TRUE, pos |-> pos + 1, buf |-> Append(buf, input[pos + 1]),
          res |-> de_from_str(Append(buf, input[pos + 1]))]
    ELSE [done |-> FALSE, pos |-> pos + 1, buf |-> Append(buf, input[pos + 1]),
          res |-> EndOfFile]

\* One turn of the loop of from_reader / from_reader_async: read_line
\* appends the next line to buf and returns its size, 0 at the end of the
\* input.  done says whether the function returns, with res.
ReadLineStep(input, pos, buf) ==
    IF pos >= Len(input)
    THEN [done |-> TRUE, pos |-> pos, buf |-> buf,
          res |-> IF TrimIsEmpty(buf) THEN EndOfFile ELSE de_from_str(buf)]
    ELSE IF /\ LineBytes(input[pos + 1]) = 1
            /\ EndsWithNewline(Append(buf, input[pos + 1]))
            /\ ~TrimIsEmpty(Append(buf, input[pos + 1]))
    THEN [done |-> TRUE, pos |-> pos + 1, buf |-> Append(buf, input[pos + 1]),
          res |-> de_from_str(Append(buf, input[pos + 1]))]
    ELSE [done |-> FALSE, pos |-> pos + 1, buf |-> Append(buf, input[pos + 1]),
          res |-> EndOfFile]

RECURSIVE ReadLoop_clearing_buf(_, _)
\* A loop that starts every turn with an empty buf.
ReadLoop_clearing_buf(input, step) ==
    IF step.done THEN step
    ELSE ReadLoop_clearing_buf(input, ReadLineStep(input, step.pos, << >>))

RECURSIVE ReadLoop(_, _)
ReadLoop(input, step) ==
    IF step.done THEN step ELSE ReadLoop(input, ReadLineStep(input, step.pos, step.buf))

\* control::de::from_reader, the reader being at line pos of input.
from_reader(input, pos) == ReadLoop(input, ReadLineStep(input, pos, << >>))

\* What next() of ControlIterator / AsyncControlIterator returns for the
\* outcome of from_reader: None for EndOfFile, Some(v) for anything else.
\* src is the text handed to from_str.
IteratorItem(read) ==
    [kind |-> IF read.res = EndOfFile THEN "end" ELSE IF read.res.ok THEN "record" ELSE "error",
     val  |-> read.res.val,
     err  |-> read.res.err,
     src  |-> read.buf]


----------------------------------------------------------------------------
(* The stream driver as a state machine: an iterator over a reader, whose  *)
(* next() is called again and again.  The blocking next() runs             *)
(* from_reader to its end; the async next() is a future that suspends at   *)
(* every read_line().await and may be dropped there.                       *)

MaxLines == 4

MaxItems == 4

MaxCancels == 1

StreamLines ==
    {FieldLine("Hello", "World", TRUE), FieldLine("Hello", "Paul", TRUE),
     FieldLine("Extra", "1", TRUE), EmptyLine, SpaceLine(TRUE), BadLine(TRUE)}

\* The input with its last line cut short of the '\n'.
WithoutFinalNewline(input) == [input EXCEPT ![Len(input)].nl = FALSE]

\* Every text of at most MaxLines lines, the last line with or without its
\* '\n' (an empty line without '\n' is no line).
StreamInputs ==
    SeqsUpTo(StreamLines, MaxLines)
        \cup {WithoutFinalNewline(input) :
                input \in {i \in SeqsUpTo(StreamLines, MaxLines) :
                              i # << >> /\ i[Len(i)].kind # "empty"}}

StreamInit ==
    /\ VersionIdle
    /\ DepIdle
    /\ ArchIdle
    /\ FileIdle
    /\ FieldIdle
    /\ rin \in StreamInputs
    /\ rmode \in {"blocking", "async"}
    /\ rpos = 0
    /\ rfut = None
    /\ rout = << >>
    /\ rcancel = 0

\* ControlIterator::next
BlockingNext ==
    /\ rmode = "blocking"
    /\ Len(rout) < MaxItems
    /\ rpos' = from_reader(rin, rpos).pos
    /\ rout' = Append(rout, IteratorItem(from_reader(rin, rpos)))
    /\ UNCHANGED <<rin, rmode, rfut, rcancel, versionVars, depVars, fieldVars, archVars, fileVars>>

\* AsyncControlIterator::next is called: the future of from_reader_async,
\* with its empty buf, not polled yet.
AsyncNext ==
    /\ rmode = "async"
    /\ rfut = None
    /\ Len(rout) < MaxItems
    /\ rfut' = Some(<< >>)
    /\ UNCHANGED <<rin, rpos, rmode, rout, rcancel, versionVars, depVars, fieldVars, archVars, fileVars>>

\* The future runs from one read_line().await to the next, or to its
\* return.
AsyncPoll ==
    /\ rfut # None
    /\ rpos' = ReadLineStep(rin, rpos, Unwrap(rfut)).pos
    /\ IF ReadLineStep(rin, rpos, Unwrap(rfut)).done
       THEN /\ rfut' = None
            /\ rout' = Append(rout, IteratorItem(ReadLineStep(rin, rpos, Unwrap(rfut))))
       ELSE /\ rfut' = Some(ReadLineStep(rin, rpos, Unwrap(rfut)).buf)
            /\ rout' = rout
    /\ UNCHANGED <<rin, rmode, rcancel, versionVars, depVars, fieldVars, archVars, fileVars>>

\* The future is dropped at its suspension point: its buf goes with it,
\* the reader stays where it is.
AsyncCancel ==
    /\ rfut # None
    /\ rcancel < MaxCancels
    /\ rfut' = None
    /\ rcancel' = rcancel + 1
    /\ UNCHANGED <<rin, rpos, rmode, rout, versionVars, depVars, fieldVars, archVars, fileVars>>

StreamNext ==
    \/ BlockingNext
    \/ AsyncNext
    \/ AsyncPoll
    \/ AsyncCancel

StreamSpec == StreamInit /\ [][StreamNext]_vars


----------------------------------------------------------------------------
(* Claims about the stream driver.                                         *)

\* The item is Some(Err(_)).
IsErrorItem(item) == item.kind = "error"

\* The item is None.
IsEndItem(item) == item.kind = "end"

\* C6: once next() has yielded an error, every later next() of the same
\* iterator (blocking or async) reports end-of-stream: no later paragraph
\* is decoded.
C6_ErrorStopsIterator ==
    \A i \in 1..Len(rout) : \A j \in (i + 1)..Len(rout) :
        IsErrorItem(rout[i]) => IsEndItem(rout[j])

RECURSIVE Drive(_, _, _)
\* The first n items of an iterator over input from line pos on, no read of
\* which is ever dropped.
Drive(input, pos, n) ==
    IF n = 0 THEN << >>
    ELSE <<IteratorItem(from_reader(input, pos))>>
             \o Drive(input, from_reader(input, pos).pos, n - 1)

\* C7: dropping an async read at a line-fetch suspension point has no
\* visible effect: the items the async iterator has yielded are the items
\* it yields when no read is ever dropped, each made of the same lines.
C7_CancelHasNoEffect ==
    rmode = "async" => rout = Drive(rin, 0, Len(rout))

\* Length of the leading run of lines that are not blank.
NonBlankRunLen(lines) ==
    IF \E i \in 1..Len(lines) : IsWhiteLine(lines[i])
    THEN (CHOOSE i \in 1..Len(lines) :
              IsWhiteLine(lines[i]) /\ \A k \in 1..(i - 1) : ~IsWhiteLine(lines[k])) - 1
    ELSE Len(lines)

RECURSIVE ParagraphsOf(_)
\* The paragraphs of a text: its maximal runs of lines that are not blank
\* (a blank line is an empty or a whitespace-only line).
ParagraphsOf(lines) ==
    IF TrimStartLines(lines) = << >> THEN << >>
    ELSE <<SubSeq(TrimStartLines(lines), 1, NonBlankRunLen(TrimStartLines(lines)))>>
             \o ParagraphsOf(SubSeq(TrimStartLines(lines),
                                    NonBlankRunLen(TrimStartLines(lines)) + 1,
                                    Len(TrimStartLines(lines))))

\* A paragraph the record type decodes: field lines only, no key twice,
\* the key Hello among them.
WellFormedParagraph(p) ==
    /\ \A i \in 1..Len(p) : p[i].kind = "field"
    /\ \A i, j \in 1..Len(p) : p[i].key = p[j].key => i = j
    /\ \E i \in 1..Len(p) : p[i].key = "Hello"

\* The value of the first line of key Hello.
FirstHello(p) ==
    p[CHOOSE i \in 1..Len(p) :
          p[i].key = "Hello" /\ \A k \in 1..(i - 1) : p[k].key # "Hello"].value

\* C8: for an input of N well-formed paragraphs separated by runs of blank
\* lines, with no read dropped, the i-th item yielded is the record of the
\* i-th paragraph for i <= N, and every item after the N-th is
\* end-of-stream.
C8_OneRecordPerParagraph ==
    (/\ rcancel = 0
     /\ \A k \in 1..Len(ParagraphsOf(rin)) : WellFormedParagraph(ParagraphsOf(rin)[k]))
    => \A i \in 1..Len(rout) :
           IF i <= Len(ParagraphsOf(rin))
           THEN /\ rout[i].kind = "record"
                /\ rout[i].val = [hello |-> FirstHello(ParagraphsOf(rin)[i])]
           ELSE IsEndItem(rout[i])

\* The lines of the one paragraph in a text handed to from_str.
ParagraphIn(src) == SubSeq(TrimStartLines(src), 1, FieldRunLen(TrimStartLines(src)))

\* C10: a paragraph in which a key of a single-valued field occurs more
\* than once decodes to a record, and the field has the value of the first
\* occurrence.
C10_FirstOccurrenceWins ==
    \A i \in 1..Len(rout) :
        (/\ ~IsEndItem(rout[i])
         /\ RawParagraph_parse(TrimStartLines(rout[i].src)).ok
         /\ \E k \in 1..Len(ParagraphIn(rout[i].src)) : ParagraphIn(rout[i].src)[k].key = "Hello")
        => /\ rout[i].kind = "record"
           /\ rout[i].val = [hello |-> FirstHello(ParagraphIn(rout[i].src))]


RECURSIVE LinesRead(_, _)
\* The number of lines the first n calls of next() have read.
LinesRead(items, n) ==
    IF n = 0 THEN 0 ELSE LinesRead(items, n - 1) + Len(items[n].src)

\* What is left of the input when the i-th call of next() starts, no read
\* having been dropped.
LeftFor(i) == SubSeq(rin, LinesRead(rout, i - 1) + 1, Len(rin))

\* C22: at the end of the input a trailing paragraph that no blank line
\* follows, with or without a final newline, is still yielded as a record;
\* when only blank lines or nothing are left, the driver reports
\* end-of-stream (None from the iterators) and no record.
C22_TrailingParagraphIsYielded ==
    rcancel = 0 =>
        \A i \in 1..Len(rout) :
            /\ TrimIsEmpty(LeftFor(i)) => IsEndItem(rout[i])
            /\ (/\ ~TrimIsEmpty(LeftFor(i))
                /\ NonBlankRunLen(TrimStartLines(LeftFor(i))) = Len(TrimStartLines(LeftFor(i)))
                /\ WellFormedParagraph(TrimStartLines(LeftFor(i))))
                  => /\ rout[i].kind = "record"
                     /\ rout[i].val = [hello |-> FirstHello(TrimStartLines(LeftFor(i)))]

\* A second paragraph that ends the input without a final newline,
\* yielded as a record, and end-of-stream after it.
C22_Witness ==
    /\ rcancel = 0
    /\ Len(rout) = 3
    /\ rout[1].kind = "record"
    /\ rout[2].kind = "record"
    /\ ~rin[Len(rin)].nl
    /\ rin[Len(rin)].kind = "field"
    /\ IsEndItem(rout[3])

\* What a caller sees of an item: a record, an error or end-of-stream.
Seen(items) == [i \in 1..Len(items) |-> [kind |-> items[i].kind, val |-> items[i].val,
                                          err |-> items[i].err]]

C25_WhitespaceLineSeparates ==
    rcancel = 0 =>
        \A k \in 2..(Len(rin) - 1) :
            (/\ rin[k] = SpaceLine(TRUE)
             /\ WellFormedParagraph(SubSeq(rin, 1, k - 1))
             /\ WellFormedParagraph(SubSeq(rin, k + 1, Len(rin))))
                => /\ Len(rout) >= 1 =>
                         /\ rout[1].kind = "record"
                         /\ rout[1].val = [hello |-> FirstHello(SubSeq(rin, 1, k - 1))]
                   /\ Len(rout) >= 2 =>
                         /\ rout[2].kind = "record"
                         /\ rout[2].val = [hello |-> FirstHello(SubSeq(rin, k + 1, Len(rin)))]

\* C30: on a finite input next() reaches end-of-stream after finitely many
\* calls: every call that does not return end-of-stream has read at least
\* one line, so there are at most as many of them as the input has lines;
\* and once end-of-stream was returned, every later call returns it too.
C30_EndOfStreamIsReached ==
    /\ \A i \in 1..Len(rout) : ~IsEndItem(rout[i]) => Len(rout[i].src) >= 1
    /\ Cardinality({i \in 1..Len(rout) : ~IsEndItem(rout[i])}) <= Len(rin)
    /\ \A i \in 1..Len(rout) : i > Len(rin) => IsEndItem(rout[i])
    /\ \A i \in 1..Len(rout) : \A j \in (i + 1)..Len(rout) :
          IsEndItem(rout[i]) => IsEndItem(rout[j])

\* Two items that are not end-of-stream, then end-of-stream twice.
C30_Witness ==
    /\ Len(rout) = 4
    /\ ~IsEndItem(rout[1])
    /\ ~IsEndItem(rout[2])
    /\ IsEndItem(rout[3])
    /\ IsEndItem(rout[4])


----------------------------------------------------------------------------
(* Decoding one field of a record: src/src/control/de/paragraph.rs.  The   *)
(* record is struct R { #[serde(rename = KEY)] field: T } and the          *)
(* paragraph holds at most one field KEY; the value is the text RawField   *)
(* keeps (no leading space, no trailing white space), as characters.       *)

\* Result<T, control::de::Error>; key is the field name the error carries,
\* if it carries one.
FieldOk(v) == [ok |-> TRUE, variant |-> "None", message |-> "", key |-> None, val |-> v]

FieldErr(variant, message, key) ==
    [ok |-> FALSE, variant |-> variant, message |-> message, key |-> key, val |-> << >>]

\* serde::de::Error::missing_field(field) through Error::custom
missing_field(field) == FieldErr("De", "missing field", Some(field))

\* serde::de::Error::invalid_type(Unexpected::Str(_), &visitor) through
\* Error::custom: what a visitor without visit_str answers to visit_str.
invalid_type(expected) == FieldErr("De", "invalid type: string, expected " \o expected, None)

RECURSIVE DigitsToInt(_)
\* The number a run of decimal digits writes.
DigitsToInt(d) ==
    IF d = << >> THEN 0
    ELSE 10 * DigitsToInt(SubSeq(d, 1, Len(d) - 1)) + (FirstIndexOf(DigitSeq, d[Len(d)]) - 1)

\* str::parse::<i128>(): an optional sign, then one or more digits (no
\* text used here is long enough to leave i128).
ParseI128(next) ==
    LET signed == Len(next) > 0 /\ next[1] \in {"+", "-"}
        body   == IF signed THEN Tail(next) ELSE next
    IN  IF body = << >> \/ \E i \in 1..Len(body) : body[i] \notin Digits
        THEN [ok |-> FALSE, num |-> 0]
        ELSE [ok |-> TRUE,
              num |-> IF signed /\ next[1] = "-" THEN 0 - DigitsToInt(body) ELSE DigitsToInt(body)]

\* Deserializer::next_number
next_number(next) ==
    IF ParseI128(next).ok THEN FieldOk(ParseI128(next).num)
    ELSE FieldErr("InvalidNumber", "", None)

U8Modulus == 256

\* deserialize_u8: visitor.visit_u8(num as u8); `as` wraps.
deserialize_u8(next) ==
    IF next_number(next).ok THEN FieldOk(next_number(next).val % U8Modulus)
    ELSE next_number(next)

\* char::to_lowercase on the characters at hand.
LowerChar(ch) == IF ch \in Upper THEN LowerSeq[FirstIndexOf(UpperSeq, ch)] ELSE ch

\* Deserializer::deserialize_bool
deserialize_bool(next) ==
    LET lowered == [i \in 1..Len(next) |-> LowerChar(next[i])]
    IN  IF lowered = <<"t", "r", "u", "e">> THEN FieldOk(TRUE)
        ELSE IF lowered = <<"f", "a", "l", "s", "e">> THEN FieldOk(FALSE)
        ELSE FieldErr("InvalidBool", "", None)

\* def_serde_traits_for!(Version): String::deserialize, then parse, the
\* error turned into D::Error::custom(format!("{:?}", e)).
Version_deserialize(text) ==
    IF from_str(text).ok THEN FieldOk(from_str(text).v)
    ELSE FieldErr("De", from_str(text).err, None)

\* T::deserialize(&mut Deserializer) for a field that is not a Vec.
deserialize_scalar(type, next) ==
    IF type = "String" THEN FieldOk(next)
    ELSE IF type = "bool" THEN deserialize_bool(next)
    ELSE IF type = "u8" THEN deserialize_u8(next)
    ELSE Version_deserialize(next)

\* T::deserialize(&mut Multiline): every deserialize_* of Multiline is
\* deserialize_any, which calls visit_str.
Multiline_deserialize(type, next) ==
    IF type = "String" THEN FieldOk(next)
    ELSE IF type = "bool" THEN invalid_type("a boolean")
    ELSE IF type = "u8" THEN invalid_type("u8")
    ELSE Version_deserialize(next)

RECURSIVE split_newline(_)
\* str::split("\n"): one piece more than there are '\n'.
split_newline(text) ==
    IF FirstIndexOf(text, "\n") = 0 THEN <<text>>
    ELSE <<SubSeq(text, 1, FirstIndexOf(text, "\n") - 1)>>
             \o split_newline(SubSeq(text, FirstIndexOf(text, "\n") + 1, Len(text)))

RECURSIVE visit_seq(_, _, _)
\* The visit_seq of Vec<T> over SeqAccess for Multiline: an element for
\* every piece left, the first error ends it.
visit_seq(type, pieces, done) ==
    IF pieces = << >> THEN FieldOk(done)
    ELSE IF ~Multiline_deserialize(type, Head(pieces)).ok
    THEN Multiline_deserialize(type, Head(pieces))
    ELSE visit_seq(type, Tail(pieces), Append(done, Multiline_deserialize(type, Head(pieces)).val))

\* Deserializer::deserialize_seq for Vec<type>
deserialize_seq(type, next) == visit_seq(type, split_newline(next), << >>)

ScalarTypes == {"String", "bool", "u8", "Version"}

\* The element type of Vec<T>, the declared types being T or Vec<T>.
ElementType(type) ==
    CHOOSE t \in ScalarTypes : type = "Vec<" \o t \o ">"

VecTypes == {"Vec<" \o t \o ">" : t \in ScalarTypes}

\* MapAccess::next_value_seed for the declared type
next_value_seed(type, next) ==
    IF type \in VecTypes THEN deserialize_seq(ElementType(type), next)
    ELSE deserialize_scalar(type, next)

\* control::de::from_str::<R>: value is None when the paragraph has no
\* field KEY.
decode_record(key, type, value) ==
    IF value = None THEN missing_field(key) ELSE next_value_seed(type, Unwrap(value))


----------------------------------------------------------------------------
(* The field decoder as a state machine: a paragraph and a record type are *)
(* chosen, then the record is decoded.                                     *)

FieldKeys == {"Hello", "Count"}

FieldTypes == ScalarTypes \cup VecTypes

\* Values of a RawField: one line or several, no white space at either end.
FieldTexts ==
    {<<>>,
     <<"1">>,
     <<"a">>,
     <<"1", ".", "0">>,
     <<"2", "5", "6">>,
     <<"-", "1">>,
     <<"3", "0", "0">>,
     <<"t", "r", "u", "e">>,
     <<"T", "r", "u", "e">>,
     <<"f", "a", "l", "s", "e">>,
     <<"y", "e", "s">>,
     <<"1", "\n", "2">>,
     <<"a", "\n", "1">>,
     <<"1", ".", "0", "\n", "1", ".", "1">>,
     <<"1", ":">>,
     <<"1", "\n", "a">>}

\* None: the paragraph has no field of the key.
FieldValues == {None} \cup {Some(text) : text \in FieldTexts}

FieldInit ==
    /\ VersionIdle
    /\ DepIdle
    /\ ArchIdle
    /\ FileIdle
    /\ StreamIdle
    /\ fkey \in FieldKeys
    /\ ftype \in FieldTypes
    /\ fvalue \in FieldValues
    /\ fres = None

\* control::de::from_str::<R> on the paragraph
DecodeRecord ==
    /\ fres = None
    /\ fres' = Some(decode_record(fkey, ftype, fvalue))
    /\ UNCHANGED <<fkey, ftype, fvalue, versionVars, depVars, streamVars, archVars,
                   fileVars>>

FieldNext == DecodeRecord

FieldSpec == FieldInit /\ [][FieldNext]_vars

\* C11: a Vec field whose value is empty decodes to the empty vector,
\* whatever the element type.
C11_EmptyValueIsEmptyVec ==
    (IsSome(fres) /\ ftype \in VecTypes /\ fvalue = Some(<< >>))
    => Unwrap(fres).ok /\ Unwrap(fres).val = << >>

\* C12: when decoding fails because the codec of the field rejects the
\* value the paragraph has for it, the error names the key of the field.
C12_CodecErrorCarriesKey ==
    (IsSome(fres) /\ fvalue # None /\ ~Unwrap(fres).ok)
    => Unwrap(fres).key = Some(fkey)



\* A decimal integer as it is written: an optional '-' and digits.
IsDecimalInteger(text) ==
    LET body == IF Len(text) > 0 /\ text[1] = "-" THEN Tail(text) ELSE text
    IN  body # << >> /\ \A i \in 1..Len(body) : body[i] \in Digits

WrittenValue(text) ==
    IF text[1] = "-" THEN 0 - DigitsToInt(Tail(text)) ELSE DigitsToInt(text)

\* C27: decoding a decimal integer field into a fixed-width integer type
\* (here u8) yields exactly the written value; a value that does not fit
\* the type, too large or negative for an unsigned type, is rejected with
\* InvalidNumber, never wrapped or truncated.
C27_IntegerFitsOrIsRejected ==
    (/\ IsSome(fres)
     /\ ftype = "u8"
     /\ fvalue # None
     /\ IsDecimalInteger(Unwrap(fvalue)))
        => IF WrittenValue(Unwrap(fvalue)) \in 0..(U8Modulus - 1)
           THEN Unwrap(fres).ok /\ Unwrap(fres).val = WrittenValue(Unwrap(fvalue))
           ELSE ~Unwrap(fres).ok /\ Unwrap(fres).variant = "InvalidNumber"


----------------------------------------------------------------------------
(* Files of a .changes file: src/src/control/changes/file.rs               *)
(*                                                                         *)
(* The text fields and the rendered line are sequences of characters; the  *)
(* size is a number.                                                       *)

HASH_LEN_MD5 == 16

\* struct File { digest, size, path, section, priority }
File(digest, size, path, section, priority) ==
    [digest |-> digest, size |-> size, path |-> path, section |-> section,
     priority |-> priority]

NoFile == File(<< >>, 0, << >>, << >>, << >>)

FileResult(f) == [ok |-> TRUE, val |-> f, err |-> "None"]

ChangesParseError(e) == [ok |-> FALSE, val |-> NoFile, err |-> e]

RECURSIVE usize_to_string(_)
\* <usize as Display>::fmt
usize_to_string(n) ==
    IF n < 10 THEN <<DigitSeq[n + 1]>>
    ELSE usize_to_string(n \div 10) \o <<DigitSeq[(n % 10) + 1]>>

\* <File as Display>::fmt: "{} {} {} {} {}" of digest, size, path,
\* section, priority.
File_to_string(f) ==
    f.digest \o <<" ">> \o usize_to_string(f.size) \o <<" ">> \o f.path \o <<" ">>
        \o f.section \o <<" ">> \o f.priority

\* <File as FromStr>::from_str: the five pieces between the spaces are
\* digest, size, section, priority, path.
File_from_str(s) ==
    LET pieces == SplitOn(s, " ")
    IN  IF Len(pieces) # 5 THEN ChangesParseError("Malformed")
        ELSE IF Len(pieces[1]) # HASH_LEN_MD5 * 2 THEN ChangesParseError("InvalidHashLength")
        ELSE IF ~ParseU64(pieces[2]).ok THEN ChangesParseError("Malformed")
        ELSE FileResult([digest   |-> pieces[1],
                         size     |-> DigitsToInt(ParseU64(pieces[2]).val),
                         section  |-> pieces[3],
                         priority |-> pieces[4],
                         path     |-> pieces[5]])

\* A digest of c repeated n times.
Repeated(c, n) == [i \in 1..n |-> c]

FileDigests ==
    {Repeated("e", HASH_LEN_MD5 * 2), Repeated("0", HASH_LEN_MD5 * 2),
     Repeated("e", HASH_LEN_MD5 * 2 - 1)}

FileSizes == {0, 7, 1183}

FilePaths == {<<"a">>, <<"a", ".", "d", "s", "c">>, <<"x">>}

FileSections == {<<"a">>, <<"d", "e", "v", "e", "l">>, <<"x", " ", "y">>}

FilePriorities == {<<"a">>, <<"o", "p", "t">>, << >>}

\* File { digest, size, path, section, priority }
ConstructFile(digest, size, path, section, priority) ==
    /\ cfile = None
    /\ cfile' = Some(File(digest, size, path, section, priority))
    /\ UNCHANGED <<ctext, cback, versionVars, depVars, streamVars, fieldVars, archVars>>

\* file.to_string()
RenderFile ==
    /\ IsSome(cfile)
    /\ ctext = None
    /\ ctext' = Some(File_to_string(Unwrap(cfile)))
    /\ UNCHANGED <<cfile, cback, versionVars, depVars, streamVars, fieldVars, archVars>>

\* file.to_string().parse::<File>()
ReparseFile ==
    /\ IsSome(ctext)
    /\ cback = None
    /\ cback' = Some(File_from_str(Unwrap(ctext)))
    /\ UNCHANGED <<cfile, ctext, versionVars, depVars, streamVars, fieldVars, archVars>>

FileNext ==
    \/ \E digest \in FileDigests, size \in FileSizes, path \in FilePaths,
          section \in FileSections, priority \in FilePriorities :
          ConstructFile(digest, size, path, section, priority)
    \/ RenderFile
    \/ ReparseFile

FileSpec == VersionInit /\ [][FileNext]_vars

\* A text field without a space.
NoSpace(field) == \A i \in 1..Len(field) : field[i] # " "

\* C29: a File whose fields hold no space and whose digest has 32
\* characters round-trips through its text: parsing the rendering gives an
\* equal File, the rendering writing digest, size, section, priority and
\* path where the parser reads them.
C29_FileRoundTrip ==
    (/\ IsSome(cback)
     /\ Len(Unwrap(cfile).digest) = 32
     /\ NoSpace(Unwrap(cfile).digest)
     /\ NoSpace(Unwrap(cfile).path)
     /\ NoSpace(Unwrap(cfile).section)
     /\ NoSpace(Unwrap(cfile).priority))
        => Unwrap(cback).ok /\ Unwrap(cback).val = Unwrap(cfile)

====
